---- MODULE Spec2Model ----
(***************************************************************************)
(* InventoryFlow-Server: the authentication and authorization subsystem.   *)
(* State: the users and roles tables, the audit log, the clock, the        *)
(* process environment (signing secrets, TTL strings), the tokens handed   *)
(* to clients (in order), the observable outcome of the last call, and the *)
(* service calls under way where their steps are followed one by one.      *)
(***************************************************************************)
EXTENDS Integers, Sequences, FiniteSets, TLC

VARIABLES users, roles, auditLog, now, jtiCount, issued, env, res, calls

vars == <<users, roles, auditLog, now, jtiCount, issued, env, res, calls>>

-----------------------------------------------------------------------------
(* Bounds of the model *)

\* the clock runs from 0 to MaxTime seconds
MaxTime == 2
\* administrators change (deactivate, delete) at most MaxChanged rows
MaxChanged == 1
\* at most MaxJti token identifiers (crypto.randomUUID() draws) are handed out
MaxJti == 4
\* the token service alone is exercised with at most MaxTokens tokens
MaxTokens == 2
\* the audit log is followed up to MaxAudit rows where logouts write to it
MaxAudit == 2

-----------------------------------------------------------------------------
(* Values *)

\* undefined / null where a record (a row, a token, a header) is expected
Undefined == [undefined |-> TRUE]
Null == [null |-> TRUE]
NoToken == [token |-> FALSE]
NoError == [name |-> "none", message |-> "", statusCode |-> 0]
\* undefined where a string is expected (a claim that is not in the payload,
\* an optional argument that is not passed)
Absent == "undefined"

UNAUTHORIZED == 401
FORBIDDEN == 403
CONFLICT == 409
INTERNAL_SERVER_ERROR == 500
OK == 200
CREATED == 201

UserIds == {"u1", "u2"}
RoleIds == {"r1", "r2"}
Permissions == {"USERS_VIEW", "USERS_CREATE", "INVENTORY_ADJUST_STOCK"}
Secrets == {"k1", "k2"}
Passwords == {"Secure123!@#", "Other456!"}
Identifiers == {"a@x.com", "alice", "b@x.com", "bob", "nobody"}

\* JS falsiness of a claim value: undefined or the empty string
Falsy(v) == v \in {Absent, ""}

\* String.prototype.includes
Includes(s, sub) ==
    \E i \in 1..(Len(s) - Len(sub) + 1) : SubSeq(s, i, i + Len(sub) - 1) = sub

-----------------------------------------------------------------------------
(* Errors: src/errors/AppError *)

AppError(message, statusCode) ==
    [name |-> "AppError", message |-> message, statusCode |-> statusCode]

UnauthorizedError(message) ==
    [name |-> "UnauthorizedError", message |-> message, statusCode |-> UNAUTHORIZED]

ConflictError(message) ==
    [name |-> "ConflictError", message |-> message, statusCode |-> CONFLICT]

\* a plain Error (or a Prisma client error): no statusCode of its own
PlainError(message) ==
    [name |-> "Error", message |-> message, statusCode |-> 0]

-----------------------------------------------------------------------------
(* Password hasher: utils/password.ts.  A hash string encodes the          *)
(* parameters it was made with and (opaquely) the password it was made of. *)

CurrentParams == "m=32768,t=2,p=2"
OldParams == "m=65536,t=3,p=2"

ARGON2_OPTIONS == CurrentParams

Argon2Hash(password, params) == [pw |-> password, params |-> params]

\* hashPassword: rejects the empty password, otherwise argon2.hash
hashPassword(password) ==
    IF password = ""
    THEN [ok |-> FALSE, error |-> PlainError("Failed to hash password")]
    ELSE [ok |-> TRUE, hash |-> Argon2Hash(password, ARGON2_OPTIONS)]

needsRehash(hashedPassword) == hashedPassword.params # ARGON2_OPTIONS

verifyPassword(password, hashedPassword) == hashedPassword.pw = password

-----------------------------------------------------------------------------
(* Token service: utils/jwt.ts *)

Issuer == "InventoryFlow"
Audience == "InventoryFlow-users"

Digit(c) ==
    CASE c = "0" -> 0 [] c = "1" -> 1 [] c = "2" -> 2 [] c = "3" -> 3
      [] c = "4" -> 4 [] c = "5" -> 5 [] c = "6" -> 6 [] c = "7" -> 7
      [] c = "8" -> 8 [] c = "9" -> 9 [] OTHER -> -1

RECURSIVE ParseIntFrom(_, _, _)
\* parseInt: the leading decimal digits of s; -1 stands for NaN
ParseIntFrom(s, i, acc) ==
    IF i > Len(s) \/ Digit(SubSeq(s, i, i)) = -1
    THEN (IF i = 1 THEN -1 ELSE acc)
    ELSE ParseIntFrom(s, i + 1, acc * 10 + Digit(SubSeq(s, i, i)))

ParseInt(s) == ParseIntFrom(s, 1, 0)

\* parseExpiry: "15m" -> 900; an unsupported unit throws AppError
parseExpiry(expiry) ==
    LET unit == SubSeq(expiry, Len(expiry), Len(expiry))
        value == ParseInt(SubSeq(expiry, 1, Len(expiry) - 1))
    IN  CASE unit = "d" -> [ok |-> TRUE, seconds |-> value * 60 * 60 * 24]
          [] unit = "h" -> [ok |-> TRUE, seconds |-> value * 60 * 60]
          [] unit = "m" -> [ok |-> TRUE, seconds |-> value * 60]
          [] unit = "s" -> [ok |-> TRUE, seconds |-> value]
          [] OTHER -> [ok |-> FALSE,
                       error |-> AppError("Unsupported expiry format: " \o expiry,
                                          INTERNAL_SERVER_ERROR)]

getAccessTokenKey(e) == e.JWT_ACCESS_SECRET
getRefreshTokenKey(e) == e.JWT_REFRESH_SECRET

\* A compact JWS: the claims, and sig = the key its HS256 signature verifies under
Token(typ, userId, email, role, jti, iat, exp, key) ==
    [wellFormed |-> TRUE, typ |-> typ, userId |-> userId, email |-> email,
     role |-> role, jti |-> jti, iat |-> iat, exp |-> exp,
     iss |-> Issuer, aud |-> Audience, sig |-> key]

\* mutant: the jti does not differ from draw to draw
randomUUID_Constant(n) == 0

\* crypto.randomUUID(): a value never drawn before
randomUUID(n) == n + 1

\* mutant: the role claim is left out of the payload
generateAccessToken_NoRole(userId, email, role, e, t, n) ==
    LET ttl == parseExpiry(e.ACCESS_TOKEN_EXPIRY)
    IN  IF ttl.ok
        THEN [ok |-> TRUE,
              token |-> Token("access", userId, email, Absent, randomUUID(n), t,
                              t + ttl.seconds, getAccessTokenKey(e))]
        ELSE [ok |-> FALSE, error |-> PlainError("Failed to generate access token")]

\* generateAccessToken(userId, email, role) at time t, drawing the n-th UUID
generateAccessToken(userId, email, role, e, t, n) ==
    LET ttl == parseExpiry(e.ACCESS_TOKEN_EXPIRY)
    IN  IF ttl.ok
        THEN [ok |-> TRUE,
              token |-> Token("access", userId, email, role, randomUUID(n), t,
                              t + ttl.seconds, getAccessTokenKey(e))]
        ELSE [ok |-> FALSE, error |-> PlainError("Failed to generate access token")]

\* generateRefreshToken(userId): no email, no role
generateRefreshToken(userId, e, t, n) ==
    LET ttl == parseExpiry(e.REFRESH_TOKEN_EXPIRY)
    IN  IF ttl.ok
        THEN [ok |-> TRUE,
              token |-> Token("refresh", userId, Absent, Absent, randomUUID(n), t,
                              t + ttl.seconds, getRefreshTokenKey(e))]
        ELSE [ok |-> FALSE, error |-> PlainError("Failed to generate refresh token")]

\* jose jwtVerify(token, key, {audience, issuer}): the compact form, then the
\* signature, then the claims (iss, aud, exp); each failure has jose's message
jwtVerify(token, key, t) ==
    IF ~token.wellFormed
    THEN [ok |-> FALSE, message |-> "Invalid Compact JWS"]
    ELSE IF token.sig # key
    THEN [ok |-> FALSE, message |-> "signature verification failed"]
    ELSE IF token.iss # Issuer
    THEN [ok |-> FALSE, message |-> "unexpected \"iss\" claim value"]
    ELSE IF token.aud # Audience
    THEN [ok |-> FALSE, message |-> "unexpected \"aud\" claim value"]
    ELSE IF token.exp <= t
    THEN [ok |-> FALSE, message |-> "\"exp\" claim timestamp check failed"]
    ELSE [ok |-> TRUE, payload |-> token]

\* the catch block of verifyAccessToken, given the caught error's message
verifyAccessCatch(message) ==
    IF Includes(message, "expired")
    THEN UnauthorizedError("Access token has expired")
    ELSE IF Includes(message, "signature")
    THEN UnauthorizedError("Invalid access token")
    ELSE UnauthorizedError("Invalid access token")

\* mutant: an access token is refused once a newer one was handed to its user
verifyAccessToken_NewestOnly(token, e, t) ==
    LET r == jwtVerify(token, getAccessTokenKey(e), t)
    IN  IF ~r.ok
        THEN [ok |-> FALSE, error |-> verifyAccessCatch(r.message)]
        ELSE IF Falsy(r.payload.userId) \/ Falsy(r.payload.email)
                \/ r.payload.typ # "access"
                \/ \E i \in 1..Len(issued) :
                        /\ issued[i].typ = "access"
                        /\ issued[i].userId = r.payload.userId
                        /\ issued[i].jti > r.payload.jti
        THEN [ok |-> FALSE, error |-> verifyAccessCatch("Invalid access token")]
        ELSE [ok |-> TRUE, error |-> NoError,
              payload |-> [email |-> r.payload.email, exp |-> r.payload.exp,
                           iat |-> r.payload.iat, role |-> r.payload.role,
                           userId |-> r.payload.userId]]

verifyAccessToken(token, e, t) ==
    LET r == jwtVerify(token, getAccessTokenKey(e), t)
    IN  IF ~r.ok
        THEN [ok |-> FALSE, error |-> verifyAccessCatch(r.message)]
        ELSE IF Falsy(r.payload.userId) \/ Falsy(r.payload.email)
                \/ r.payload.typ # "access"
        THEN [ok |-> FALSE, error |-> verifyAccessCatch("Invalid access token")]
        ELSE [ok |-> TRUE, error |-> NoError,
              payload |-> [email |-> r.payload.email, exp |-> r.payload.exp,
                           iat |-> r.payload.iat, role |-> r.payload.role,
                           userId |-> r.payload.userId]]

\* the catch block of verifyRefreshToken
verifyRefreshCatch(message) ==
    IF Includes(message, "expired")
    THEN UnauthorizedError("Refresh token has expired")
    ELSE IF Includes(message, "signature")
    THEN UnauthorizedError("Invalid refresh token")
    ELSE UnauthorizedError("Invalid refresh token")

\* mutant: a refresh token is refused once a newer one was handed to its user
verifyRefreshToken_NewestOnly(token, e, t) ==
    LET r == jwtVerify(token, getRefreshTokenKey(e), t)
    IN  IF ~r.ok
        THEN [ok |-> FALSE, error |-> verifyRefreshCatch(r.message)]
        ELSE IF Falsy(r.payload.userId) \/ r.payload.typ # "refresh"
                \/ \E i \in 1..Len(issued) :
                        /\ issued[i].typ = "refresh"
                        /\ issued[i].userId = r.payload.userId
                        /\ issued[i].jti > r.payload.jti
        THEN [ok |-> FALSE, error |-> verifyRefreshCatch("Invalid refresh token")]
        ELSE [ok |-> TRUE, error |-> NoError,
              payload |-> [exp |-> r.payload.exp, iat |-> r.payload.iat,
                           userId |-> r.payload.userId]]

\* mutant: the type claim is not checked
verifyRefreshToken_NoTypeCheck(token, e, t) ==
    LET r == jwtVerify(token, getRefreshTokenKey(e), t)
    IN  IF ~r.ok
        THEN [ok |-> FALSE, error |-> verifyRefreshCatch(r.message)]
        ELSE IF Falsy(r.payload.userId)
        THEN [ok |-> FALSE, error |-> verifyRefreshCatch("Invalid refresh token")]
        ELSE [ok |-> TRUE, error |-> NoError,
              payload |-> [exp |-> r.payload.exp, iat |-> r.payload.iat,
                           userId |-> r.payload.userId]]

verifyRefreshToken(token, e, t) ==
    LET r == jwtVerify(token, getRefreshTokenKey(e), t)
    IN  IF ~r.ok
        THEN [ok |-> FALSE, error |-> verifyRefreshCatch(r.message)]
        ELSE IF Falsy(r.payload.userId) \/ r.payload.typ # "refresh"
        THEN [ok |-> FALSE, error |-> verifyRefreshCatch("Invalid refresh token")]
        ELSE [ok |-> TRUE, error |-> NoError,
              payload |-> [exp |-> r.payload.exp, iat |-> r.payload.iat,
                           userId |-> r.payload.userId]]

-----------------------------------------------------------------------------
(* Persistence: the users and roles tables (prisma) *)

SeedUsers ==
    [u \in UserIds |->
        IF u = "u1"
        THEN [id |-> "u1", email |-> "a@x.com", username |-> "alice",
              password |-> Argon2Hash("Secure123!@#", OldParams),
              isActive |-> TRUE, lastLoginAt |-> Null, roleId |-> "r1"]
        ELSE [id |-> "u2", email |-> "b@x.com", username |-> "bob",
              password |-> Argon2Hash("Other456!", CurrentParams),
              isActive |-> TRUE, lastLoginAt |-> Null, roleId |-> "r2"]]

SeedRoles ==
    [r \in RoleIds |->
        IF r = "r1"
        THEN [id |-> "r1", name |-> "Admin", isActive |-> TRUE,
              permissions |-> {[permission |-> "USERS_VIEW"],
                               [permission |-> "USERS_CREATE"]}]
        ELSE [id |-> "r2", name |-> "Viewer", isActive |-> TRUE,
              permissions |-> {[permission |-> "USERS_VIEW"]}]]

\* a users row with  include: { role: { include: { permissions: true } } }
WithRole(u) ==
    [id |-> u.id, email |-> u.email, username |-> u.username,
     password |-> u.password, isActive |-> u.isActive,
     lastLoginAt |-> u.lastLoginAt, roleId |-> u.roleId, role |-> roles[u.roleId]]

\* a users row with  include: { role: true }
WithRoleOnly(u) ==
    [id |-> u.id, email |-> u.email, username |-> u.username,
     password |-> u.password, isActive |-> u.isActive,
     lastLoginAt |-> u.lastLoginAt, roleId |-> u.roleId,
     role |-> [id |-> roles[u.roleId].id, name |-> roles[u.roleId].name,
               isActive |-> roles[u.roleId].isActive]]

\* mutant: the row is returned as it is stored
WithoutPassword_WholeRow(u) == u

\* const { password, ...userWithoutPassword } = user
WithoutPassword(u) == [k \in (DOMAIN u) \ {"password"} |-> u[k]]

\* UserService.findUserById: an active user with that id, or null; a failing
\* query is logged and answered with null
findUserById(userId, dbOk) ==
    IF ~dbOk THEN Null
    ELSE IF userId \in DOMAIN users /\ users[userId].isActive
    THEN WithRole(users[userId])
    ELSE Null

\* the rows prisma.user.findFirst may return for
\* where: { isActive: true, OR: [{ email }, { username }] }
IdentifierMatches(identifier) ==
    {WithRole(users[u]) : u \in {v \in DOMAIN users :
        /\ users[v].isActive
        /\ (users[v].email = identifier \/ users[v].username = identifier)}}

\* UserService.findUserByIdentifier: the possible results (findFirst has no
\* orderBy); a failing query is logged and answered with null
findUserByIdentifier(identifier, dbOk) ==
    IF ~dbOk \/ IdentifierMatches(identifier) = {}
    THEN {Null}
    ELSE IdentifierMatches(identifier)

-----------------------------------------------------------------------------
(* The outcome of the call that has just returned, as its caller sees it;  *)
(* BaseRes when no call has just returned.  rehash, update and audit say   *)
(* how the call's best-effort writes went: "none" (not attempted), "ok" or *)
(* "failed"                                                                *)

\* no service call is followed step by step
NoCalls == <<>>

\* the Set-Cookie of res.clearCookie("refreshToken")
Cleared == [cleared |-> TRUE]

BaseRes ==
    [op |-> "none", input |-> Null, ok |-> FALSE, error |-> NoError,
     status |-> 0, message |-> "", next |-> FALSE, verifyCalled |-> FALSE,
     accessToken |-> NoToken, refreshToken |-> NoToken, user |-> Null,
     reqUser |-> Undefined, cookie |-> NoToken, payload |-> Null, dbOk |-> TRUE,
     rehash |-> "none", update |-> "none", audit |-> "none",
     hashCalled |-> FALSE, list |-> {}]

Init ==
    /\ users = SeedUsers
    /\ roles = SeedRoles
    /\ auditLog = <<>>
    /\ now = 0
    /\ jtiCount = 0
    /\ issued = <<>>
    /\ env = [JWT_ACCESS_SECRET |-> "k1", JWT_REFRESH_SECRET |-> "k2",
              ACCESS_TOKEN_EXPIRY |-> "1s", REFRESH_TOKEN_EXPIRY |-> "2s"]
    /\ res = BaseRes
    /\ calls = NoCalls

-----------------------------------------------------------------------------
(* The environment: time passes; an administrator changes rows *)

\* the rows administrators have changed so far
Changed ==
    Cardinality(UserIds \ DOMAIN users)
      + Cardinality({u \in DOMAIN users : ~users[u].isActive})
      + Cardinality({r \in RoleIds : ~roles[r].isActive})
      + Cardinality({r \in RoleIds :
                        ~(SeedRoles[r].permissions \subseteq roles[r].permissions)})
      + Cardinality({u \in UserIds \cap DOMAIN users :
                        users[u].roleId # SeedUsers[u].roleId})

Tick ==
    /\ now < MaxTime
    /\ now' = now + 1
    /\ UNCHANGED <<users, roles, auditLog, jtiCount, issued, env, res, calls>>

\* users.isActive := false (soft deactivation)
DeactivateUser(u) ==
    /\ u \in DOMAIN users
    /\ users[u].isActive
    /\ Changed < MaxChanged
    /\ users' = [users EXCEPT ![u].isActive = FALSE]
    /\ UNCHANGED <<roles, auditLog, now, jtiCount, issued, env, res, calls>>

\* the users row is deleted
RemoveUser(u) ==
    /\ u \in DOMAIN users
    /\ users[u].isActive => Changed < MaxChanged
    /\ users' = [v \in (DOMAIN users) \ {u} |-> users[v]]
    /\ UNCHANGED <<roles, auditLog, now, jtiCount, issued, env, res, calls>>

\* roles.isActive := false
DeactivateRole(r) ==
    /\ roles[r].isActive
    /\ Changed < MaxChanged
    /\ roles' = [roles EXCEPT ![r].isActive = FALSE]
    /\ UNCHANGED <<users, auditLog, now, jtiCount, issued, env, res, calls>>

-----------------------------------------------------------------------------
(* middleware/error.middleware.ts *)

\* errorHandler: an AppError answers with its own status and message, any
\* other error with 500 "Internal server error"
errorHandler(err) ==
    IF err.name \in {"AppError", "UnauthorizedError", "ConflictError"}
    THEN [statusCode |-> err.statusCode, message |-> err.message]
    ELSE [statusCode |-> INTERNAL_SERVER_ERROR, message |-> "Internal server error"]

-----------------------------------------------------------------------------
(* Audit collaborator: services/audit.service.ts *)

\* mutant: the login audit row is written twice
logLogin_Twice(log, userId, writeOk) ==
    IF writeOk
    THEN log \o << [action |-> "LOGIN", entityId |-> userId, userId |-> userId],
                   [action |-> "LOGIN", entityId |-> userId, userId |-> userId] >>
    ELSE log

\* logLogin: one LOGIN row; a failing write is logged and swallowed
logLogin(log, userId, writeOk) ==
    IF writeOk
    THEN Append(log, [action |-> "LOGIN", entityId |-> userId, userId |-> userId])
    ELSE log

-----------------------------------------------------------------------------
(* Auth orchestrator: services/user.service.ts *)

\* mutant: a wrong password is reported as such
authenticateCheck_WrongPassword(user, password) ==
    IF user = Null
    THEN [error |-> UnauthorizedError("Invalid credentials provided"),
          verifyCalled |-> FALSE]
    ELSE IF ~user.isActive
    THEN [error |-> UnauthorizedError("Your account is deactivated"),
          verifyCalled |-> FALSE]
    ELSE IF ~verifyPassword(password, user.password)
    THEN [error |-> UnauthorizedError("Incorrect password"),
          verifyCalled |-> TRUE]
    ELSE [error |-> NoError, verifyCalled |-> TRUE]

\* authenticateUser up to and including the password check, for the row the
\* identifier lookup returned: the error thrown (if any) and whether
\* verifyPassword was called
authenticateCheck(user, password) ==
    IF user = Null
    THEN [error |-> UnauthorizedError("Invalid credentials provided"),
          verifyCalled |-> FALSE]
    ELSE IF ~user.isActive
    THEN [error |-> UnauthorizedError("Your account is deactivated"),
          verifyCalled |-> FALSE]
    ELSE IF ~verifyPassword(password, user.password)
    THEN [error |-> UnauthorizedError("Invalid credentials provided"),
          verifyCalled |-> TRUE]
    ELSE [error |-> NoError, verifyCalled |-> TRUE]

\* mutant: the new hash is stored although the rehash failed
rehashStep_StoresAnyway(user, password, rehashOk) ==
    IF needsRehash(user.password) /\ hashPassword(password).ok
    THEN hashPassword(password).hash
    ELSE user.password

\* the rehash step: the hash stored after it
rehashStep(user, password, rehashOk) ==
    IF needsRehash(user.password) /\ rehashOk /\ hashPassword(password).ok
    THEN hashPassword(password).hash
    ELSE user.password

\* authenticateUser(data, ip, userAgent).  lookupOk, rehashOk, updateOk and
\* auditOk say whether the identifier query, the rehash (hash + update), the
\* lastLoginAt update and the audit write succeed.
AuthenticateUser(identifier, password, lookupOk, rehashOk, updateOk, auditOk) ==
    \E user \in findUserByIdentifier(identifier, lookupOk) :
        LET chk == authenticateCheck(user, password)
            in == [identifier |-> identifier, password |-> password]
        IN  IF chk.error # NoError
            THEN /\ res' = [BaseRes EXCEPT !.op = "authenticateUser", !.input = in, !.dbOk = lookupOk,
                               !.error = chk.error,
                               !.status = errorHandler(chk.error).statusCode,
                               !.message = errorHandler(chk.error).message,
                               !.verifyCalled = chk.verifyCalled]
                 /\ UNCHANGED <<users, roles, auditLog, now, jtiCount, issued, env, calls>>
            ELSE LET at == generateAccessToken(user.id, user.email, user.role.name,
                                                env, now, jtiCount)
                     rt == generateRefreshToken(user.id, env, now, jtiCount + 1)
                     stored == rehashStep(user, password, rehashOk)
                     rehash == IF ~needsRehash(user.password) THEN "none"
                               ELSE IF rehashOk /\ hashPassword(password).ok
                               THEN "ok" ELSE "failed"
                 IN  /\ jtiCount + 2 <= MaxJti
                     /\ jtiCount' = jtiCount + 2
                     /\ IF ~at.ok \/ ~rt.ok
                        THEN \* a generator throws while the array of promises is
                             \* built: the update and the audit are never started
                             /\ users' = [users EXCEPT ![user.id].password = stored]
                             /\ auditLog' = auditLog
                             /\ issued' = issued
                             /\ res' = [BaseRes EXCEPT !.op = "authenticateUser",
                                           !.input = in, !.dbOk = lookupOk, !.verifyCalled = TRUE,
                                           !.rehash = rehash,
                                           !.error = IF ~at.ok THEN at.error ELSE rt.error,
                                           !.status = INTERNAL_SERVER_ERROR,
                                           !.message = "Internal server error"]
                        ELSE /\ auditLog' = logLogin(auditLog, user.id, auditOk)
                             /\ IF updateOk
                                THEN /\ users' = [users EXCEPT
                                                    ![user.id].password = stored,
                                                    ![user.id].lastLoginAt = [time |-> now]]
                                     /\ issued' = issued \o <<at.token, rt.token>>
                                     /\ res' = [BaseRes EXCEPT
                                                   !.op = "authenticateUser",
                                                   !.input = in, !.dbOk = lookupOk, !.ok = TRUE,
                                                   !.status = OK, !.verifyCalled = TRUE,
                                                   !.rehash = rehash, !.update = "ok",
                                                   !.audit = IF auditOk THEN "ok" ELSE "failed",
                                                   !.accessToken = at.token,
                                                   !.refreshToken = rt.token,
                                                   !.user = WithoutPassword(user)]
                                ELSE \* Promise.all rejects with the update's error
                                     /\ users' = [users EXCEPT
                                                    ![user.id].password = stored]
                                     /\ issued' = issued
                                     /\ res' = [BaseRes EXCEPT
                                                   !.op = "authenticateUser",
                                                   !.input = in, !.dbOk = lookupOk, !.verifyCalled = TRUE,
                                                   !.rehash = rehash, !.update = "failed",
                                                   !.audit = IF auditOk THEN "ok" ELSE "failed",
                                                   !.error = PlainError("update failed"),
                                                   !.status = INTERNAL_SERVER_ERROR,
                                                   !.message = "Internal server error"]
                     /\ UNCHANGED <<roles, now, env, calls>>

\* mutant: the user is looked up by id alone, active or not, and only a
\* missing row is refused
refreshTokens_AnyRow(refreshToken, dbOk) ==
    LET v == verifyRefreshToken(refreshToken, env, now)
    IN  IF ~v.ok
        THEN [ok |-> FALSE, error |-> v.error]
        ELSE LET user == IF dbOk /\ v.payload.userId \in DOMAIN users
                         THEN WithRole(users[v.payload.userId])
                         ELSE Null
             IN  IF user = Null
                 THEN [ok |-> FALSE,
                       error |-> UnauthorizedError("User not found or account deactivated")]
                 ELSE LET at == generateAccessToken(user.id, user.email, user.roleId,
                                                     env, now, jtiCount)
                          rt == generateRefreshToken(user.id, env, now, jtiCount + 1)
                      IN  IF ~at.ok THEN [ok |-> FALSE, error |-> at.error]
                          ELSE IF ~rt.ok THEN [ok |-> FALSE, error |-> rt.error]
                          ELSE [ok |-> TRUE, error |-> NoError,
                                accessToken |-> at.token, refreshToken |-> rt.token,
                                user |-> WithoutPassword(user)]

\* refreshTokens(refreshToken): what it returns or throws
refreshTokens(refreshToken, dbOk) ==
    LET v == verifyRefreshToken(refreshToken, env, now)
    IN  IF ~v.ok
        THEN [ok |-> FALSE, error |-> v.error]
        ELSE LET user == findUserById(v.payload.userId, dbOk)
             IN  IF user = Null \/ ~user.isActive
                 THEN [ok |-> FALSE,
                       error |-> UnauthorizedError("User not found or account deactivated")]
                 ELSE LET at == generateAccessToken(user.id, user.email, user.roleId,
                                                     env, now, jtiCount)
                          rt == generateRefreshToken(user.id, env, now, jtiCount + 1)
                      IN  IF ~at.ok THEN [ok |-> FALSE, error |-> at.error]
                          ELSE IF ~rt.ok THEN [ok |-> FALSE, error |-> rt.error]
                          ELSE [ok |-> TRUE, error |-> NoError,
                                accessToken |-> at.token, refreshToken |-> rt.token,
                                user |-> WithoutPassword(user)]

\* the tokens handed to clients so far (issued lists them in order)
Handed == {issued[i] : i \in 1..Len(issued)}

\* the tokens a client can present: those handed out, and tokens this server
\* never made: one signed with a key that is not ours, one of another
\* deployment that shares our access secret (other issuer), and garbage
BadSignature ==
    [Token("access", "u1", "a@x.com", "Admin", 0, 0, MaxTime + 1, "not-our-key")
        EXCEPT !.jti = 0]
ForeignIssuer ==
    [Token("access", "u1", "a@x.com", "Admin", 0, 0, MaxTime + 1, "k1")
        EXCEPT !.iss = "OtherDeployment"]
Garbage ==
    [wellFormed |-> FALSE, typ |-> Absent, userId |-> Absent,
     email |-> Absent, role |-> Absent, jti |-> 0, iat |-> 0, exp |-> 0,
     iss |-> Absent, aud |-> Absent, sig |-> Absent]

Presentable == Handed \cup {BadSignature, ForeignIssuer, Garbage}

\* a call of UserService.refreshTokens
RefreshTokens(refreshToken, dbOk) ==
    LET r == refreshTokens(refreshToken, dbOk)
    IN  IF r.ok
        THEN /\ jtiCount + 2 <= MaxJti
             /\ jtiCount' = jtiCount + 2
             /\ issued' = issued \o <<r.accessToken, r.refreshToken>>
             /\ res' = [BaseRes EXCEPT !.op = "refreshTokens", !.input = refreshToken, !.dbOk = dbOk,
                           !.ok = TRUE, !.status = OK, !.accessToken = r.accessToken,
                           !.refreshToken = r.refreshToken, !.user = r.user]
             /\ UNCHANGED <<users, roles, auditLog, now, env, calls>>
        ELSE /\ res' = [BaseRes EXCEPT !.op = "refreshTokens", !.input = refreshToken, !.dbOk = dbOk,
                           !.error = r.error,
                           !.status = errorHandler(r.error).statusCode,
                           !.message = errorHandler(r.error).message]
             /\ UNCHANGED <<users, roles, auditLog, now, jtiCount, issued, env, calls>>

-----------------------------------------------------------------------------
(* Access control gate: middleware/auth.middleware.ts *)

\* nothing (or only blanks) after the prefix
EmptyRest == [empty |-> TRUE]

\* an Authorization header: absent, or a scheme prefix and what follows it
Headers ==
    {Undefined, [prefix |-> "Basic ", rest |-> Garbage],
     [prefix |-> "Bearer ", rest |-> EmptyRest]}
        \cup {[prefix |-> "Bearer ", rest |-> t] : t \in Presentable}

\* extractTokenFromHeader
extractTokenFromHeader(authHeader) ==
    IF authHeader = Undefined THEN Null
    ELSE IF authHeader.prefix # "Bearer " THEN Null
    ELSE IF authHeader.rest = EmptyRest THEN Null
    ELSE authHeader.rest

\* mutant: the user is taken as it was when the database was seeded
requireAuth_StaleUser(authHeader, dbOk) ==
    LET token == extractTokenFromHeader(authHeader)
    IN  IF token = Null
        THEN [status |-> UNAUTHORIZED, message |-> "Missing authorization token",
              next |-> FALSE, user |-> Undefined]
        ELSE LET v == verifyAccessToken(token, env, now)
             IN  IF ~v.ok
                 THEN [status |-> INTERNAL_SERVER_ERROR, message |-> v.error.message,
                       next |-> FALSE, user |-> Undefined]
                 ELSE IF ~dbOk
                 THEN [status |-> UNAUTHORIZED, message |-> "User not found",
                       next |-> FALSE, user |-> Undefined]
                 ELSE [status |-> 0, message |-> "", next |-> TRUE,
                       user |-> LET su == SeedUsers[v.payload.userId]
                                IN  [id |-> su.id, email |-> su.email,
                                     username |-> su.username,
                                     password |-> su.password,
                                     isActive |-> su.isActive,
                                     lastLoginAt |-> su.lastLoginAt,
                                     roleId |-> su.roleId,
                                     role |-> SeedRoles[su.roleId]]]

\* requireAuth: the response sent (status 0: none), whether next() is called
\* and the user attached to the request
requireAuth(authHeader, dbOk) ==
    LET token == extractTokenFromHeader(authHeader)
    IN  IF token = Null
        THEN [status |-> UNAUTHORIZED, message |-> "Missing authorization token",
              next |-> FALSE, user |-> Undefined]
        ELSE LET v == verifyAccessToken(token, env, now)
             IN  IF ~v.ok
                 THEN \* the catch block: every Error answers 500 with its message
                      [status |-> INTERNAL_SERVER_ERROR, message |-> v.error.message,
                       next |-> FALSE, user |-> Undefined]
                 ELSE LET user == findUserById(v.payload.userId, dbOk)
                      IN  IF user = Null
                          THEN [status |-> UNAUTHORIZED, message |-> "User not found",
                                next |-> FALSE, user |-> Undefined]
                          ELSE [status |-> 0, message |-> "", next |-> TRUE,
                                user |-> user]

\* mutant: a token that does not verify is answered like requireAuth does
optionalAuth_RejectInvalid(authHeader, dbOk) ==
    LET token == extractTokenFromHeader(authHeader)
    IN  IF token = Null
        THEN [status |-> 0, nextCalls |-> 1, user |-> Undefined]
        ELSE LET v == verifyAccessToken(token, env, now)
             IN  IF ~v.ok
                 THEN [status |-> UNAUTHORIZED, nextCalls |-> 0, user |-> Undefined]
                 ELSE LET user == findUserById(v.payload.userId, dbOk)
                      IN  [status |-> 0, nextCalls |-> 1,
                           user |-> IF user # Null THEN user ELSE Undefined]

\* optionalAuth: the response sent (status 0: none), how many times next() is
\* called and the user attached to the request
optionalAuth(authHeader, dbOk) ==
    LET token == extractTokenFromHeader(authHeader)
    IN  IF token = Null
        THEN [status |-> 0, nextCalls |-> 1, user |-> Undefined]
        ELSE LET v == verifyAccessToken(token, env, now)
             IN  IF ~v.ok
                 THEN \* the inner catch logs the error; next() follows it
                      [status |-> 0, nextCalls |-> 1, user |-> Undefined]
                 ELSE LET user == findUserById(v.payload.userId, dbOk)
                      IN  [status |-> 0, nextCalls |-> 1,
                           user |-> IF user # Null THEN user ELSE Undefined]

LowerChar(c) ==
    CASE c = "A" -> "a" [] c = "B" -> "b" [] c = "C" -> "c" [] c = "D" -> "d"
      [] c = "E" -> "e" [] c = "F" -> "f" [] c = "G" -> "g" [] c = "H" -> "h"
      [] c = "I" -> "i" [] c = "J" -> "j" [] c = "K" -> "k" [] c = "L" -> "l"
      [] c = "M" -> "m" [] c = "N" -> "n" [] c = "O" -> "o" [] c = "P" -> "p"
      [] c = "Q" -> "q" [] c = "R" -> "r" [] c = "S" -> "s" [] c = "T" -> "t"
      [] c = "U" -> "u" [] c = "V" -> "v" [] c = "W" -> "w" [] c = "X" -> "x"
      [] c = "Y" -> "y" [] c = "Z" -> "z" [] OTHER -> c

RECURSIVE toLowerCase(_)
toLowerCase(s) ==
    IF Len(s) = 0 THEN ""
    ELSE LowerChar(SubSeq(s, 1, 1)) \o toLowerCase(SubSeq(s, 2, Len(s)))

\* String.prototype.replace with a string pattern: the first occurrence only
replace(s, pat, by) ==
    LET hits == {i \in 1..(Len(s) - Len(pat) + 1) : SubSeq(s, i, i + Len(pat) - 1) = pat}
    IN  IF hits = {} THEN s
        ELSE LET i == CHOOSE j \in hits : \A k \in hits : j <= k
             IN  SubSeq(s, 1, i - 1) \o by \o SubSeq(s, i + Len(pat), Len(s))

\* mutant: any permission of the role lets the request through
requirePermission_AnyPermission(requiredPermission, reqUser) ==
    IF reqUser = Undefined
    THEN [status |-> UNAUTHORIZED, message |-> "User not found", next |-> FALSE]
    ELSE IF reqUser.role.permissions = {}
    THEN [status |-> FORBIDDEN,
          message |-> "You don't have permission to "
                        \o replace(toLowerCase(requiredPermission), "_", " "),
          next |-> FALSE]
    ELSE [status |-> 0, message |-> "", next |-> TRUE]

\* requirePermission(requiredPermission)(req, res, next)
requirePermission(requiredPermission, reqUser) ==
    IF reqUser = Undefined
    THEN [status |-> UNAUTHORIZED, message |-> "User not found", next |-> FALSE]
    ELSE IF ~(\E p \in reqUser.role.permissions : p.permission = requiredPermission)
    THEN [status |-> FORBIDDEN,
          message |-> "You don't have permission to "
                        \o replace(toLowerCase(requiredPermission), "_", " "),
          next |-> FALSE]
    ELSE [status |-> 0, message |-> "", next |-> TRUE]

\* the req.user a gate can find: none, or what requireAuth attached
RequestUsers ==
    {Undefined} \cup ({findUserById(u, TRUE) : u \in UserIds} \ {Null})

\* a request passing through requireAuth
RequireAuth(authHeader, dbOk) ==
    LET a == requireAuth(authHeader, dbOk)
    IN  /\ res' = [BaseRes EXCEPT !.op = "requireAuth", !.input = authHeader, !.dbOk = dbOk,
                      !.status = a.status, !.message = a.message, !.next = a.next,
                      !.reqUser = a.user]
        /\ UNCHANGED <<users, roles, auditLog, now, jtiCount, issued, env, calls>>

\* a request passing through optionalAuth; next is TRUE when next() was called
\* exactly once
OptionalAuth(authHeader, dbOk) ==
    LET a == optionalAuth(authHeader, dbOk)
    IN  /\ res' = [BaseRes EXCEPT !.op = "optionalAuth", !.input = authHeader,
                      !.dbOk = dbOk, !.status = a.status,
                      !.next = (a.nextCalls = 1), !.reqUser = a.user]
        /\ UNCHANGED <<users, roles, auditLog, now, jtiCount, issued, env, calls>>

\* a request passing through requirePermission(requiredPermission)
RequirePermission(requiredPermission, reqUser) ==
    LET g == requirePermission(requiredPermission, reqUser)
    IN  /\ res' = [BaseRes EXCEPT !.op = "requirePermission",
                      !.input = requiredPermission, !.status = g.status,
                      !.message = g.message, !.next = g.next, !.reqUser = reqUser]
        /\ UNCHANGED <<users, roles, auditLog, now, jtiCount, issued, env, calls>>

-----------------------------------------------------------------------------
(* POST /auth/refresh: requireAuth, then AuthController.refreshToken *)

\* the refreshToken cookie of a request: absent, a refresh token the server
\* set earlier, or something else
Cookies == {Undefined, Garbage} \cup {t \in Handed : t.typ = "refresh"}

PostRefresh(authHeader, cookie, dbOk) ==
    LET a == requireAuth(authHeader, dbOk)
        in == [authorization |-> authHeader, cookie |-> cookie]
    IN  IF ~a.next
        THEN /\ res' = [BaseRes EXCEPT !.op = "POST /auth/refresh", !.input = in, !.dbOk = dbOk,
                           !.status = a.status, !.message = a.message]
             /\ UNCHANGED <<users, roles, auditLog, now, jtiCount, issued, env, calls>>
        ELSE IF cookie = Undefined
        THEN /\ res' = [BaseRes EXCEPT !.op = "POST /auth/refresh", !.input = in, !.dbOk = dbOk,
                           !.status = UNAUTHORIZED, !.next = TRUE, !.reqUser = a.user,
                           !.message = "No refresh token provided"]
             /\ UNCHANGED <<users, roles, auditLog, now, jtiCount, issued, env, calls>>
        ELSE LET r == refreshTokens(cookie, dbOk)
             IN  IF r.ok
                 THEN /\ jtiCount + 2 <= MaxJti
                      /\ jtiCount' = jtiCount + 2
                      /\ issued' = issued \o <<r.accessToken, r.refreshToken>>
                      /\ res' = [BaseRes EXCEPT !.op = "POST /auth/refresh",
                                    !.input = in, !.dbOk = dbOk, !.ok = TRUE, !.status = OK,
                                    !.next = TRUE, !.reqUser = a.user,
                                    !.message = "Token refreshed successfully",
                                    !.accessToken = r.accessToken,
                                    !.cookie = r.refreshToken, !.user = r.user]
                      /\ UNCHANGED <<users, roles, auditLog, now, env, calls>>
                 ELSE /\ res' = [BaseRes EXCEPT !.op = "POST /auth/refresh",
                                    !.input = in, !.dbOk = dbOk, !.next = TRUE, !.reqUser = a.user,
                                    !.error = r.error,
                                    !.status = errorHandler(r.error).statusCode,
                                    !.message = errorHandler(r.error).message]
                      /\ UNCHANGED <<users, roles, auditLog, now, jtiCount, issued, env, calls>>

-----------------------------------------------------------------------------
(* Validators, and POST /auth/login: AuthController.login *)

\* String.prototype.trim, for the space character
RECURSIVE trim(_)
trim(s) ==
    IF Len(s) = 0 THEN ""
    ELSE IF SubSeq(s, 1, 1) = " " THEN trim(SubSeq(s, 2, Len(s)))
    ELSE IF SubSeq(s, Len(s), Len(s)) = " " THEN trim(SubSeq(s, 1, Len(s) - 1))
    ELSE s

\* emailSchema: z.email().toLowerCase().trim()
emailSchema(s) == trim(toLowerCase(s))

\* registerSchema.parse(body): the email is lower-cased and trimmed, the
\* username only trimmed
registerSchema(body) ==
    [email |-> emailSchema(body.email), username |-> trim(body.username),
     password |-> body.password, roleId |-> body.roleId]

\* loginSchema.parse(body): the identifier is lower-cased
loginSchema(body) ==
    [identifier |-> toLowerCase(body.identifier), password |-> body.password]

\* POST /auth/login with every database operation succeeding: the body is
\* parsed, authenticateUser called, the refresh token set as a cookie and the
\* access token and the user returned; an error goes to errorHandler
PostLogin(body) ==
    LET data == loginSchema(body)
        out == [BaseRes EXCEPT !.op = "POST /auth/login", !.input = body]
    IN  \E user \in findUserByIdentifier(data.identifier, TRUE) :
            LET chk == authenticateCheck(user, data.password)
            IN  IF chk.error # NoError
                THEN /\ res' = [out EXCEPT !.error = chk.error,
                                   !.status = errorHandler(chk.error).statusCode,
                                   !.message = errorHandler(chk.error).message,
                                   !.verifyCalled = chk.verifyCalled]
                     /\ UNCHANGED <<users, roles, auditLog, now, jtiCount, issued,
                                    env, calls>>
                ELSE LET at == generateAccessToken(user.id, user.email,
                                    user.role.name, env, now, jtiCount)
                         rt == generateRefreshToken(user.id, env, now, jtiCount + 1)
                         stored == rehashStep(user, data.password, TRUE)
                     IN  /\ jtiCount + 2 <= MaxJti
                         /\ at.ok /\ rt.ok
                         /\ jtiCount' = jtiCount + 2
                         /\ users' = [users EXCEPT
                                        ![user.id].password = stored,
                                        ![user.id].lastLoginAt = [time |-> now]]
                         /\ auditLog' = logLogin(auditLog, user.id, TRUE)
                         /\ issued' = issued \o <<at.token, rt.token>>
                         /\ res' = [out EXCEPT !.ok = TRUE, !.status = OK,
                                       !.message = "Login successful",
                                       !.verifyCalled = TRUE, !.update = "ok",
                                       !.audit = "ok",
                                       !.rehash = IF needsRehash(user.password)
                                                  THEN "ok" ELSE "none",
                                       !.accessToken = at.token,
                                       !.cookie = rt.token,
                                       !.user = WithoutPassword(user)]
                         /\ UNCHANGED <<roles, now, env, calls>>

-----------------------------------------------------------------------------
(* User management: services/user.service.ts, controllers/user.controller  *)

\* the id prisma gives the row createUser inserts
NewUserId == "u3"

\* validated registration bodies (registerSchema)
RegisterData ==
    [email : {"a@x.com", "c@x.com"}, username : {"alice", "carol"},
     password : {"NewPass789!"}, roleId : {"r2"}]

\* logUserCreation: one CREATE row; a failing write is logged and swallowed
logUserCreation(log, userId, createdByUserId, writeOk) ==
    IF writeOk
    THEN Append(log, [action |-> "CREATE", entityId |-> userId,
                      userId |-> createdByUserId])
    ELSE log

\* mutant: a taken username is reported with the message of a taken email
createUser_OneMessage(userData, createdByUserId, lookupOk, createOk, auditOk) ==
    LET fail(e, h) == [ok |-> FALSE, error |-> e, hashCalled |-> h,
                       users |-> users, log |-> auditLog, user |-> Null]
        hashed == hashPassword(userData.password)
        row == [id |-> NewUserId, email |-> userData.email,
                username |-> userData.username, password |-> hashed.hash,
                isActive |-> TRUE, lastLoginAt |-> Null,
                roleId |-> userData.roleId]
    IN  IF ~lookupOk THEN fail(PlainError("database error"), FALSE)
        ELSE IF \E u \in DOMAIN users : users[u].email = userData.email
                    \/ users[u].username = userData.username
        THEN fail(ConflictError("Email address is already registered"), FALSE)
        ELSE IF ~hashed.ok THEN fail(hashed.error, TRUE)
        ELSE IF ~createOk \/ NewUserId \in DOMAIN users
        THEN fail(AppError("Failed to create user account", INTERNAL_SERVER_ERROR),
                  TRUE)
        ELSE [ok |-> TRUE, error |-> NoError, hashCalled |-> TRUE,
              users |-> [v \in (DOMAIN users) \cup {NewUserId} |->
                            IF v = NewUserId THEN row ELSE users[v]],
              log |-> IF createdByUserId # Absent
                      THEN logUserCreation(auditLog, NewUserId, createdByUserId,
                                           auditOk)
                      ELSE auditLog,
              user |-> WithoutPassword(row)]

\* createUser(userData, createdByUserId): what it returns or throws, whether
\* hashPassword was called, and the users table and audit log after it
createUser(userData, createdByUserId, lookupOk, createOk, auditOk) ==
    LET fail(e, h) == [ok |-> FALSE, error |-> e, hashCalled |-> h,
                       users |-> users, log |-> auditLog, user |-> Null]
        hashed == hashPassword(userData.password)
        row == [id |-> NewUserId, email |-> userData.email,
                username |-> userData.username, password |-> hashed.hash,
                isActive |-> TRUE, lastLoginAt |-> Null,
                roleId |-> userData.roleId]
    IN  IF ~lookupOk THEN fail(PlainError("database error"), FALSE)
        ELSE IF \E u \in DOMAIN users : users[u].email = userData.email
        THEN fail(ConflictError("Email address is already registered"), FALSE)
        ELSE IF \E u \in DOMAIN users : users[u].username = userData.username
        THEN fail(ConflictError("Username is already taken"), FALSE)
        ELSE IF ~hashed.ok THEN fail(hashed.error, TRUE)
        ELSE IF ~createOk \/ NewUserId \in DOMAIN users
        THEN fail(AppError("Failed to create user account", INTERNAL_SERVER_ERROR),
                  TRUE)
        ELSE [ok |-> TRUE, error |-> NoError, hashCalled |-> TRUE,
              users |-> [v \in (DOMAIN users) \cup {NewUserId} |->
                            IF v = NewUserId THEN row ELSE users[v]],
              log |-> IF createdByUserId # Absent
                      THEN logUserCreation(auditLog, NewUserId, createdByUserId,
                                           auditOk)
                      ELSE auditLog,
              user |-> WithoutPassword(row)]

\* a call of UserService.createUser
CreateUser(userData, createdByUserId, lookupOk, createOk, auditOk) ==
    LET c == createUser(userData, createdByUserId, lookupOk, createOk, auditOk)
    IN  /\ users' = c.users
        /\ auditLog' = c.log
        /\ res' = [BaseRes EXCEPT !.op = "createUser", !.input = userData,
                      !.dbOk = lookupOk, !.ok = c.ok, !.error = c.error,
                      !.status = IF c.ok THEN OK ELSE errorHandler(c.error).statusCode,
                      !.message = IF c.ok THEN "" ELSE errorHandler(c.error).message,
                      !.hashCalled = c.hashCalled, !.user = c.user]
        /\ UNCHANGED <<roles, now, jtiCount, issued, env, calls>>

\* getAllUsers: every users row with its role, the password left out (the
\* order, createdAt descending, is not modelled)
getAllUsers == {WithoutPassword(WithRoleOnly(users[u])) : u \in DOMAIN users}

\* a call of UserService.getAllUsers; a failing query rejects
GetAllUsers(dbOk) ==
    /\ res' = IF dbOk
              THEN [BaseRes EXCEPT !.op = "getAllUsers", !.ok = TRUE,
                       !.status = OK, !.list = getAllUsers]
              ELSE [BaseRes EXCEPT !.op = "getAllUsers", !.dbOk = FALSE,
                       !.error = PlainError("database error"),
                       !.status = INTERNAL_SERVER_ERROR,
                       !.message = "Internal server error"]
    /\ UNCHANGED <<users, roles, auditLog, now, jtiCount, issued, env, calls>>

\* getCurrentUser(userId): the user without the password; the
\* UnauthorizedError thrown for a missing user is caught and answered with null
getCurrentUser(userId, dbOk) ==
    LET user == findUserById(userId, dbOk)
    IN  IF user = Null THEN Null ELSE WithoutPassword(user)

\* a call of UserService.getCurrentUser
GetCurrentUser(userId, dbOk) ==
    LET u == getCurrentUser(userId, dbOk)
    IN  /\ res' = [BaseRes EXCEPT !.op = "getCurrentUser", !.input = userId,
                      !.dbOk = dbOk, !.ok = (u # Null), !.status = OK, !.user = u]
        /\ UNCHANGED <<users, roles, auditLog, now, jtiCount, issued, env, calls>>

\* requireRole(allowedRoles)(req, res, next)
requireRole(allowedRoles, reqUser) ==
    IF reqUser = Undefined
    THEN [status |-> UNAUTHORIZED, message |-> "User not found", next |-> FALSE]
    ELSE IF reqUser.role.name \notin allowedRoles
    THEN [status |-> FORBIDDEN, message |-> "Forbidden", next |-> FALSE]
    ELSE [status |-> 0, message |-> "", next |-> TRUE]

\* POST /users/register: router.use(requireAuth), requireRole(["Admin"]),
\* then UserController.registerUser, which parses the body with
\* registerSchema.  next says whether the request reached the controller.
PostRegister(authHeader, body, dbOk, createOk, auditOk) ==
    LET a == requireAuth(authHeader, dbOk)
        g == requireRole({"Admin"}, a.user)
        c == createUser(registerSchema(body), a.user.id, dbOk, createOk, auditOk)
        in == [authorization |-> authHeader, body |-> body]
        out == [BaseRes EXCEPT !.op = "POST /users/register", !.input = in,
                   !.dbOk = dbOk]
    IN  IF ~a.next
        THEN /\ res' = [out EXCEPT !.status = a.status, !.message = a.message]
             /\ UNCHANGED <<users, roles, auditLog, now, jtiCount, issued, env, calls>>
        ELSE IF ~g.next
        THEN /\ res' = [out EXCEPT !.status = g.status, !.message = g.message,
                                   !.reqUser = a.user]
             /\ UNCHANGED <<users, roles, auditLog, now, jtiCount, issued, env, calls>>
        ELSE /\ users' = c.users
             /\ auditLog' = c.log
             /\ res' = [out EXCEPT !.reqUser = a.user, !.next = TRUE, !.ok = c.ok,
                           !.error = c.error, !.hashCalled = c.hashCalled,
                           !.user = c.user,
                           !.status = IF c.ok THEN CREATED
                                      ELSE errorHandler(c.error).statusCode,
                           !.message = IF c.ok THEN "User registered successfully"
                                       ELSE errorHandler(c.error).message]
             /\ UNCHANGED <<roles, now, jtiCount, issued, env, calls>>

-----------------------------------------------------------------------------
(* POST /auth/logout: optionalAuth, then AuthController.logout *)

\* logLogout: one LOGOUT row; a failing write is logged and swallowed
logLogout(log, userId, writeOk) ==
    IF writeOk
    THEN Append(log, [action |-> "LOGOUT", entityId |-> userId, userId |-> userId])
    ELSE log

\* mutant: a request without a user is refused
logout_RequiresUser(reqUser, auditOk) ==
    IF reqUser # Undefined
    THEN [status |-> OK, message |-> "Logout successful", cookie |-> Cleared,
          log |-> logLogout(auditLog, reqUser.id, auditOk),
          audit |-> IF auditOk THEN "ok" ELSE "failed"]
    ELSE [status |-> UNAUTHORIZED, message |-> "User not authenticated",
          cookie |-> NoToken, log |-> auditLog, audit |-> "none"]

\* AuthController.logout: the response, the cookie set and the audit log
\* after it
logout(reqUser, auditOk) ==
    IF reqUser # Undefined
    THEN [status |-> OK, message |-> "Logout successful", cookie |-> Cleared,
          log |-> logLogout(auditLog, reqUser.id, auditOk),
          audit |-> IF auditOk THEN "ok" ELSE "failed"]
    ELSE [status |-> OK, message |-> "Logout successful", cookie |-> Cleared,
          log |-> auditLog, audit |-> "none"]

PostLogout(authHeader, dbOk, auditOk) ==
    LET a == optionalAuth(authHeader, dbOk)
        l == logout(a.user, auditOk)
    IN  /\ Len(l.log) <= MaxAudit
        /\ auditLog' = l.log
        /\ res' = [BaseRes EXCEPT !.op = "POST /auth/logout", !.input = authHeader,
                      !.dbOk = dbOk, !.ok = (l.status = OK), !.status = l.status,
                      !.message = l.message, !.next = (a.nextCalls = 1),
                      !.reqUser = a.user, !.cookie = l.cookie, !.audit = l.audit]
        /\ UNCHANGED <<users, roles, now, jtiCount, issued, env, calls>>

-----------------------------------------------------------------------------
(* GET /users: router.use(requireAuth), requirePermission("USERS_VIEW"),   *)
(* then UserController.getAllUsers                                         *)

GetUsers(authHeader, dbOk) ==
    LET a == requireAuth(authHeader, dbOk)
        g == requirePermission("USERS_VIEW", a.user)
        out == [BaseRes EXCEPT !.op = "GET /users", !.input = authHeader,
                   !.dbOk = dbOk]
    IN  /\ res' = IF ~a.next
                  THEN [out EXCEPT !.status = a.status, !.message = a.message]
                  ELSE IF ~g.next
                  THEN [out EXCEPT !.status = g.status, !.message = g.message,
                                   !.reqUser = a.user]
                  ELSE IF ~dbOk
                  THEN [out EXCEPT !.reqUser = a.user, !.next = TRUE,
                                   !.error = PlainError("database error"),
                                   !.status = INTERNAL_SERVER_ERROR,
                                   !.message = "Internal server error"]
                  ELSE [out EXCEPT !.reqUser = a.user, !.next = TRUE, !.ok = TRUE,
                                   !.status = OK, !.list = getAllUsers]
        /\ UNCHANGED <<users, roles, auditLog, now, jtiCount, issued, env, calls>>

\* a role_permissions row is deleted
RevokePermission(r, p) ==
    /\ [permission |-> p] \in roles[r].permissions
    /\ Changed < MaxChanged
    /\ roles' = [roles EXCEPT ![r].permissions = @ \ {[permission |-> p]}]
    /\ UNCHANGED <<users, auditLog, now, jtiCount, issued, env, res, calls>>

\* users.roleId := r
ChangeRole(u, r) ==
    /\ u \in DOMAIN users
    /\ users[u].roleId # r
    /\ Changed < MaxChanged
    /\ users' = [users EXCEPT ![u].roleId = r]
    /\ UNCHANGED <<roles, auditLog, now, jtiCount, issued, env, res, calls>>

-----------------------------------------------------------------------------

\* no call is under way
Idle == res = BaseRes

\* the caller has taken the outcome of the call
Return ==
    /\ res # BaseRes
    /\ res' = BaseRes
    /\ UNCHANGED <<users, roles, auditLog, now, jtiCount, issued, env, calls>>

Next ==
    \/ Return
    \/ Idle /\ Tick
    \/ Idle /\ \E u \in UserIds : DeactivateUser(u)
    \/ Idle /\ \E u \in UserIds : RemoveUser(u)
    \/ Idle /\ \E r \in RoleIds : DeactivateRole(r)
    \/ Idle /\ \E identifier \in Identifiers, password \in Passwords,
          lookupOk, rehashOk, updateOk, auditOk \in BOOLEAN :
            AuthenticateUser(identifier, password, lookupOk, rehashOk, updateOk, auditOk)
    \/ Idle /\ \E t \in Presentable, dbOk \in BOOLEAN : RefreshTokens(t, dbOk)
    \/ Idle /\ \E h \in Headers, dbOk \in BOOLEAN : RequireAuth(h, dbOk)
    \/ Idle /\ \E h \in Headers, dbOk \in BOOLEAN : OptionalAuth(h, dbOk)
    \/ Idle /\ \E p \in Permissions, u \in RequestUsers : RequirePermission(p, u)
    \/ Idle /\ \E h \in Headers, c \in Cookies, dbOk \in BOOLEAN :
            PostRefresh(h, c, dbOk)

Spec == Init /\ [][Next]_vars

-----------------------------------------------------------------------------
(* The token service on its own: utils/jwt.ts called directly, under every *)
(* configuration of the two signing secrets                                *)

InitT ==
    /\ users = SeedUsers
    /\ roles = SeedRoles
    /\ auditLog = <<>>
    /\ now = 0
    /\ jtiCount = 0
    /\ issued = <<>>
    /\ env \in [JWT_ACCESS_SECRET : Secrets, JWT_REFRESH_SECRET : Secrets,
                ACCESS_TOKEN_EXPIRY : {"1s"}, REFRESH_TOKEN_EXPIRY : {"2s"}]
    /\ res = BaseRes
    /\ calls = NoCalls

GenerateAccessToken(userId, email, role) ==
    LET g == generateAccessToken(userId, email, role, env, now, jtiCount)
    IN  /\ jtiCount < MaxTokens
        /\ jtiCount' = jtiCount + 1
        /\ issued' = IF g.ok THEN Append(issued, g.token) ELSE issued
        /\ res' = [BaseRes EXCEPT !.op = "generateAccessToken", !.ok = g.ok,
                      !.input = [userId |-> userId, email |-> email, role |-> role],
                      !.error = IF g.ok THEN NoError ELSE g.error,
                      !.accessToken = IF g.ok THEN g.token ELSE NoToken]
        /\ UNCHANGED <<users, roles, auditLog, now, env, calls>>

GenerateRefreshToken(userId) ==
    LET g == generateRefreshToken(userId, env, now, jtiCount)
    IN  /\ jtiCount < MaxTokens
        /\ jtiCount' = jtiCount + 1
        /\ issued' = IF g.ok THEN Append(issued, g.token) ELSE issued
        /\ res' = [BaseRes EXCEPT !.op = "generateRefreshToken", !.ok = g.ok,
                      !.input = [userId |-> userId],
                      !.error = IF g.ok THEN NoError ELSE g.error,
                      !.refreshToken = IF g.ok THEN g.token ELSE NoToken]
        /\ UNCHANGED <<users, roles, auditLog, now, env, calls>>

VerifyAccessToken(token) ==
    LET v == verifyAccessToken(token, env, now)
    IN  /\ res' = [BaseRes EXCEPT !.op = "verifyAccessToken", !.input = token,
                      !.ok = v.ok, !.error = v.error, !.message = v.error.message,
                      !.status = v.error.statusCode,
                      !.payload = IF v.ok THEN v.payload ELSE Null]
        /\ UNCHANGED <<users, roles, auditLog, now, jtiCount, issued, env, calls>>

VerifyRefreshToken(token) ==
    LET v == verifyRefreshToken(token, env, now)
    IN  /\ res' = [BaseRes EXCEPT !.op = "verifyRefreshToken", !.input = token,
                      !.ok = v.ok, !.error = v.error, !.message = v.error.message,
                      !.status = v.error.statusCode,
                      !.payload = IF v.ok THEN v.payload ELSE Null]
        /\ UNCHANGED <<users, roles, auditLog, now, jtiCount, issued, env, calls>>

NextT ==
    \/ Return
    \/ Idle /\ Tick
    \/ Idle /\ \E u \in UserIds, r \in RoleIds :
            GenerateAccessToken(u, SeedUsers[u].email, SeedRoles[r].name)
    \/ Idle /\ \E u \in UserIds : GenerateRefreshToken(u)
    \/ Idle /\ \E t \in Presentable : VerifyAccessToken(t)
    \/ Idle /\ \E t \in Presentable : VerifyRefreshToken(t)

SpecT == InitT /\ [][NextT]_vars

-----------------------------------------------------------------------------
(* User management and the services that return users, with the            *)
(* role_permissions rows as the database may hold them: as seeded, or with *)
(* USERS_CREATE granted to a second role                                   *)

RoleTables ==
    {SeedRoles,
     [SeedRoles EXCEPT !["r2"].permissions = @ \cup {[permission |-> "USERS_CREATE"]}]}

InitU ==
    /\ users = SeedUsers
    /\ roles \in RoleTables
    /\ auditLog = <<>>
    /\ now = 0
    /\ jtiCount = 0
    /\ issued = <<>>
    /\ env = [JWT_ACCESS_SECRET |-> "k1", JWT_REFRESH_SECRET |-> "k2",
              ACCESS_TOKEN_EXPIRY |-> "1s", REFRESH_TOKEN_EXPIRY |-> "2s"]
    /\ res = BaseRes
    /\ calls = NoCalls

NextU ==
    \/ Return
    \/ Idle /\ \E u \in UserIds : DeactivateUser(u)
    \/ Idle /\ \E identifier \in Identifiers, password \in Passwords :
            AuthenticateUser(identifier, password, TRUE, TRUE, TRUE, TRUE)
    \/ Idle /\ \E t \in Presentable : RefreshTokens(t, TRUE)
    \/ Idle /\ \E d \in RegisterData, by \in UserIds \cup {Absent},
          lookupOk, createOk, auditOk \in BOOLEAN :
            CreateUser(d, by, lookupOk, createOk, auditOk)
    \/ Idle /\ \E dbOk \in BOOLEAN : GetAllUsers(dbOk)
    \/ Idle /\ \E u \in UserIds \cup {NewUserId}, dbOk \in BOOLEAN :
            GetCurrentUser(u, dbOk)
    \/ Idle /\ \E h \in Headers, d \in RegisterData, dbOk, createOk, auditOk \in BOOLEAN :
            PostRegister(h, d, dbOk, createOk, auditOk)

SpecU == InitU /\ [][NextU]_vars

-----------------------------------------------------------------------------
(* authenticateUser followed from await to await, for calls that run       *)
(* concurrently on the event loop.  Each step is one database operation    *)
(* (or the reading of the clock and the UUID source) together with the     *)
(* synchronous code that follows it.                                       *)

CallIds == {"c1", "c2"}

\* a call that has not started; trace lists what the call has done, in order
NewCall ==
    [pc |-> "idle", identifier |-> "", password |-> "", lookupOk |-> TRUE,
     user |-> Null, verifiedAgainst |-> Null, rehash |-> "none",
     at |-> NoToken, rt |-> NoToken, loginAt |-> 0,
     update |-> "none", audit |-> "none", ok |-> FALSE, error |-> NoError,
     trace |-> <<>>]

InitL ==
    /\ users = SeedUsers
    /\ roles = SeedRoles
    /\ auditLog = <<>>
    /\ now = 0
    /\ jtiCount = 0
    /\ issued = <<>>
    /\ env = [JWT_ACCESS_SECRET |-> "k1", JWT_REFRESH_SECRET |-> "k2",
              ACCESS_TOKEN_EXPIRY |-> "1s", REFRESH_TOKEN_EXPIRY |-> "2s"]
    /\ res = BaseRes
    /\ calls = [c \in CallIds |-> NewCall]

\* await this.findUserByIdentifier(data.identifier)
LoginLookup(c, identifier, password, lookupOk) ==
    /\ calls[c].pc = "idle"
    /\ \E user \in findUserByIdentifier(identifier, lookupOk) :
            calls' = [calls EXCEPT ![c] =
                        [NewCall EXCEPT !.pc = "fetched", !.identifier = identifier,
                            !.password = password, !.lookupOk = lookupOk,
                            !.user = user, !.trace = <<"lookup">>]]
    /\ UNCHANGED <<users, roles, auditLog, now, jtiCount, issued, env, res>>

\* mutant: the password is verified before the row is checked
loginVerify_VerifyFirst(k) ==
    LET chk == authenticateCheck(k.user, k.password)
    IN  IF k.user = Null
        THEN [k EXCEPT !.pc = "done", !.error = chk.error]
        ELSE IF chk.error # NoError
        THEN [k EXCEPT !.pc = "done", !.error = chk.error,
                       !.verifiedAgainst = k.user.password,
                       !.trace = k.trace \o <<"verify", "activeCheck">>]
        ELSE [k EXCEPT !.pc = IF needsRehash(k.user.password)
                              THEN "rehash" ELSE "issue",
                       !.verifiedAgainst = k.user.password,
                       !.trace = k.trace \o <<"verify", "activeCheck">>]

\* the checks of the fetched row and await verifyPassword(data.password,
\* user.password): the call after them
loginVerify(k) ==
    LET chk == authenticateCheck(k.user, k.password)
    IN  IF k.user = Null
        THEN [k EXCEPT !.pc = "done", !.error = chk.error]
        ELSE IF ~chk.verifyCalled
        THEN [k EXCEPT !.pc = "done", !.error = chk.error,
                       !.trace = k.trace \o <<"activeCheck">>]
        ELSE IF chk.error # NoError
        THEN [k EXCEPT !.pc = "done", !.error = chk.error,
                       !.verifiedAgainst = k.user.password,
                       !.trace = k.trace \o <<"activeCheck", "verify">>]
        ELSE [k EXCEPT !.pc = IF needsRehash(k.user.password)
                              THEN "rehash" ELSE "issue",
                       !.verifiedAgainst = k.user.password,
                       !.trace = k.trace \o <<"activeCheck", "verify">>]

LoginVerify(c) ==
    /\ calls[c].pc = "fetched"
    /\ calls' = [calls EXCEPT ![c] = loginVerify(calls[c])]
    /\ UNCHANGED <<users, roles, auditLog, now, jtiCount, issued, env, res>>

\* the rehash block: hashPassword and the update of the password column, in
\* a try/catch that logs
LoginRehash(c, rehashOk) ==
    LET k == calls[c]
        stored == rehashStep(k.user, k.password, rehashOk)
        done == rehashOk /\ hashPassword(k.password).ok /\ k.user.id \in DOMAIN users
    IN  /\ k.pc = "rehash"
        /\ users' = IF done THEN [users EXCEPT ![k.user.id].password = stored]
                    ELSE users
        /\ calls' = [calls EXCEPT ![c] =
                        [k EXCEPT !.pc = "issue",
                                  !.rehash = IF done THEN "ok" ELSE "failed",
                                  !.trace = k.trace \o <<"rehash">>]]
        /\ UNCHANGED <<roles, auditLog, now, jtiCount, issued, env, res>>

\* the array given to Promise.all is built: both tokens are generated (the
\* clock is read, the jti drawn), the lastLoginAt update and logLogin started
LoginIssue(c) ==
    LET k == calls[c]
        at == generateAccessToken(k.user.id, k.user.email, k.user.role.name,
                                  env, now, jtiCount)
        rt == generateRefreshToken(k.user.id, env, now, jtiCount + 1)
    IN  /\ k.pc = "issue"
        /\ jtiCount + 2 <= MaxJti
        /\ jtiCount' = jtiCount + 2
        /\ calls' = [calls EXCEPT ![c] =
                IF ~at.ok \/ ~rt.ok
                THEN [k EXCEPT !.pc = "done",
                               !.error = IF ~at.ok THEN at.error ELSE rt.error]
                ELSE [k EXCEPT !.pc = "settling", !.at = at.token, !.rt = rt.token,
                               !.loginAt = now, !.update = "pending",
                               !.audit = "pending",
                               !.trace = k.trace \o <<"token">>]]
        /\ UNCHANGED <<users, roles, auditLog, now, issued, env, res>>

\* prisma.user.update({ data: { lastLoginAt } }) settles; its rejection
\* rejects Promise.all at once, and authenticateUser throws
LoginUpdate(c, updateOk) ==
    LET k == calls[c]
        done == updateOk /\ k.user.id \in DOMAIN users
    IN  /\ k.update = "pending"
        /\ users' = IF done
                    THEN [users EXCEPT ![k.user.id].lastLoginAt = [time |-> k.loginAt]]
                    ELSE users
        /\ calls' = [calls EXCEPT ![c] =
                IF done
                THEN [k EXCEPT !.update = "ok", !.trace = k.trace \o <<"update">>]
                ELSE [k EXCEPT !.update = "failed", !.pc = "done",
                               !.error = PlainError("update failed"),
                               !.trace = k.trace \o <<"update">>]]
        /\ UNCHANGED <<roles, auditLog, now, jtiCount, issued, env, res>>

\* logLogin settles (it resolves whether or not the write succeeded)
LoginAudit(c, auditOk) ==
    LET k == calls[c]
    IN  /\ k.audit = "pending"
        /\ auditLog' = logLogin(auditLog, k.user.id, auditOk)
        /\ calls' = [calls EXCEPT ![c] =
                        [k EXCEPT !.audit = IF auditOk THEN "ok" ELSE "failed",
                                  !.trace = k.trace \o <<"audit">>]]
        /\ UNCHANGED <<users, roles, now, jtiCount, issued, env, res>>

\* Promise.all resolves: authenticateUser returns the tokens and the user
LoginReturn(c) ==
    LET k == calls[c]
    IN  /\ k.pc = "settling"
        /\ k.update = "ok"
        /\ k.audit \in {"ok", "failed"}
        /\ issued' = issued \o <<k.at, k.rt>>
        /\ calls' = [calls EXCEPT ![c] = [k EXCEPT !.pc = "done", !.ok = TRUE]]
        /\ UNCHANGED <<users, roles, auditLog, now, jtiCount, env, res>>

NextL ==
    \/ Tick
    \/ \E c \in CallIds, identifier \in Identifiers, password \in Passwords,
          lookupOk \in BOOLEAN : LoginLookup(c, identifier, password, lookupOk)
    \/ \E c \in CallIds : LoginVerify(c)
    \/ \E c \in CallIds, rehashOk \in BOOLEAN : LoginRehash(c, rehashOk)
    \/ \E c \in CallIds : LoginIssue(c)
    \/ \E c \in CallIds, updateOk \in BOOLEAN : LoginUpdate(c, updateOk)
    \/ \E c \in CallIds, auditOk \in BOOLEAN : LoginAudit(c, auditOk)
    \/ \E c \in CallIds : LoginReturn(c)

SpecL == InitL /\ [][NextL]_vars

-----------------------------------------------------------------------------
(* The gated routes while administrators change users, roles and           *)
(* permissions between requests                                            *)

NextG ==
    \/ Return
    \/ Idle /\ Tick
    \/ Idle /\ \E u \in UserIds : DeactivateUser(u)
    \/ Idle /\ \E r \in RoleIds : RevokePermission(r, "USERS_VIEW")
    \/ Idle /\ \E u \in UserIds, r \in RoleIds : ChangeRole(u, r)
    \/ Idle /\ \E identifier \in Identifiers, password \in Passwords :
            AuthenticateUser(identifier, password, TRUE, TRUE, TRUE, TRUE)
    \/ Idle /\ \E h \in Headers, dbOk, auditOk \in BOOLEAN : PostLogout(h, dbOk, auditOk)
    \/ Idle /\ \E h \in Headers, dbOk \in BOOLEAN : GetUsers(h, dbOk)

SpecG == Init /\ [][NextG]_vars

-----------------------------------------------------------------------------
(* createUser followed from await to await, for calls that run             *)
(* concurrently                                                            *)

\* the data of the concurrent createUser calls
CreateData ==
    [email : {"a@x.com", "c@x.com", "d@x.com"}, username : {"carol", "dave"},
     password : {"NewPass789!"}, roleId : {"r2"}]

\* a createUser call that has not started
NewCreate ==
    [pc |-> "idle", data |-> Null, createdBy |-> Absent, createOk |-> TRUE,
     hash |-> Null, id |-> Absent, ok |-> FALSE, error |-> NoError,
     audit |-> "none"]

\* the id prisma gives the next row
NextUserId == IF NewUserId \in DOMAIN users THEN "u4" ELSE NewUserId

InitC ==
    /\ users = SeedUsers
    /\ roles = SeedRoles
    /\ auditLog = <<>>
    /\ now = 0
    /\ jtiCount = 0
    /\ issued = <<>>
    /\ env = [JWT_ACCESS_SECRET |-> "k1", JWT_REFRESH_SECRET |-> "k2",
              ACCESS_TOKEN_EXPIRY |-> "1s", REFRESH_TOKEN_EXPIRY |-> "2s"]
    /\ res = BaseRes
    /\ calls = [c \in CallIds |-> NewCreate]

\* await prisma.user.findUnique({ where: { email } }) and the throw after it
CreateCheckEmail(c, userData, createdByUserId) ==
    /\ calls[c].pc = "idle"
    /\ calls' = [calls EXCEPT ![c] =
            IF \E u \in DOMAIN users : users[u].email = userData.email
            THEN [NewCreate EXCEPT !.pc = "done", !.data = userData,
                    !.createdBy = createdByUserId,
                    !.error = ConflictError("Email address is already registered")]
            ELSE [NewCreate EXCEPT !.pc = "emailFree", !.data = userData,
                    !.createdBy = createdByUserId]]
    /\ UNCHANGED <<users, roles, auditLog, now, jtiCount, issued, env, res>>

\* await prisma.user.findUnique({ where: { username } }) and the throw after it
CreateCheckUsername(c) ==
    LET k == calls[c]
    IN  /\ k.pc = "emailFree"
        /\ calls' = [calls EXCEPT ![c] =
                IF \E u \in DOMAIN users : users[u].username = k.data.username
                THEN [k EXCEPT !.pc = "done",
                               !.error = ConflictError("Username is already taken")]
                ELSE [k EXCEPT !.pc = "usernameFree"]]
        /\ UNCHANGED <<users, roles, auditLog, now, jtiCount, issued, env, res>>

\* await hashPassword(userData.password), outside the try block
CreateHash(c) ==
    LET k == calls[c]
        hashed == hashPassword(k.data.password)
    IN  /\ k.pc = "usernameFree"
        /\ calls' = [calls EXCEPT ![c] =
                IF hashed.ok THEN [k EXCEPT !.pc = "hashed", !.hash = hashed.hash]
                ELSE [k EXCEPT !.pc = "done", !.error = hashed.error]]
        /\ UNCHANGED <<users, roles, auditLog, now, jtiCount, issued, env, res>>

\* await prisma.user.create inside the try block: the unique indexes
\* users_email_key and users_username_key refuse a second row (P2002), and
\* the catch block turns any error into AppError("Failed to create user account")
CreateInsert(c, createOk) ==
    LET k == calls[c]
        taken == \E u \in DOMAIN users :
                    users[u].email = k.data.email \/ users[u].username = k.data.username
        id == NextUserId
        row == [id |-> id, email |-> k.data.email, username |-> k.data.username,
                password |-> k.hash, isActive |-> TRUE, lastLoginAt |-> Null,
                roleId |-> k.data.roleId]
    IN  /\ k.pc = "hashed"
        /\ IF ~createOk \/ taken
           THEN /\ users' = users
                /\ calls' = [calls EXCEPT ![c] =
                        [k EXCEPT !.pc = "done", !.createOk = createOk,
                            !.error = AppError("Failed to create user account",
                                               INTERNAL_SERVER_ERROR)]]
           ELSE /\ users' = [u \in DOMAIN users \cup {id} |->
                                IF u = id THEN row ELSE users[u]]
                /\ calls' = [calls EXCEPT ![c] =
                        IF k.createdBy # Absent
                        THEN [k EXCEPT !.pc = "created", !.id = id]
                        ELSE [k EXCEPT !.pc = "done", !.id = id, !.ok = TRUE]]
        /\ UNCHANGED <<roles, auditLog, now, jtiCount, issued, env, res>>

\* await logUserCreation(...), then the return of the user without password
CreateAudit(c, auditOk) ==
    LET k == calls[c]
    IN  /\ k.pc = "created"
        /\ auditLog' = logUserCreation(auditLog, k.id, k.createdBy, auditOk)
        /\ calls' = [calls EXCEPT ![c] =
                        [k EXCEPT !.pc = "done", !.ok = TRUE,
                                  !.audit = IF auditOk THEN "ok" ELSE "failed"]]
        /\ UNCHANGED <<users, roles, now, jtiCount, issued, env, res>>

NextC ==
    \/ \E c \in CallIds, d \in CreateData, by \in {"u1", Absent} :
            CreateCheckEmail(c, d, by)
    \/ \E c \in CallIds : CreateCheckUsername(c)
    \/ \E c \in CallIds : CreateHash(c)
    \/ \E c \in CallIds, createOk \in BOOLEAN : CreateInsert(c, createOk)
    \/ \E c \in CallIds, auditOk \in BOOLEAN : CreateAudit(c, auditOk)

SpecC == InitC /\ [][NextC]_vars

-----------------------------------------------------------------------------
(* Registration followed by login through the endpoints                    *)

\* registration bodies as a client may send them
RegisterBodies ==
    [email : {"c@x.com"}, username : {"carol", "Carol", "a@x.com"},
     password : {"NewPass789!"}, roleId : {"r2"}]

\* login bodies
LoginBodies ==
    [identifier : {"carol", "Carol", "c@x.com", "a@x.com"},
     password : {"NewPass789!", "Secure123!@#"}]

NextR ==
    \/ Return
    \/ Idle /\ Tick
    \/ Idle /\ DeactivateUser(NewUserId)
    \/ Idle /\ AuthenticateUser("alice", "Secure123!@#", TRUE, TRUE, TRUE, TRUE)
    \/ Idle /\ \E h \in Headers, b \in RegisterBodies :
            PostRegister(h, b, TRUE, TRUE, TRUE)
    \/ Idle /\ \E b \in LoginBodies : PostLogin(b)

SpecR == Init /\ [][NextR]_vars

-----------------------------------------------------------------------------
(* Login and refresh under every TTL configuration config/env.ts lets      *)
(* through: envSchema takes any string for the two expiry variables        *)

TtlStrings == {"1s", "1m", "1x"}

InitE ==
    /\ users = SeedUsers
    /\ roles = SeedRoles
    /\ auditLog = <<>>
    /\ now = 0
    /\ jtiCount = 0
    /\ issued = <<>>
    /\ env \in [JWT_ACCESS_SECRET : {"k1"}, JWT_REFRESH_SECRET : {"k2"},
                ACCESS_TOKEN_EXPIRY : TtlStrings, REFRESH_TOKEN_EXPIRY : TtlStrings]
    /\ res = BaseRes
    /\ calls = NoCalls

NextE ==
    \/ Return
    \/ Idle /\ Tick
    \/ Idle /\ \E identifier \in Identifiers, password \in Passwords :
            AuthenticateUser(identifier, password, TRUE, TRUE, TRUE, TRUE)
    \/ Idle /\ \E t \in Presentable : RefreshTokens(t, TRUE)

SpecE == InitE /\ [][NextE]_vars

-----------------------------------------------------------------------------
(* Properties *)

\* the identifier is neither the email nor the username of any users row
NoSuchUser(identifier) ==
    \A u \in DOMAIN users :
        users[u].email # identifier /\ users[u].username # identifier

\* the identifier names an active user whose stored hash is of another password
WrongPassword(identifier, password) ==
    \E u \in DOMAIN users :
        /\ users[u].isActive
        /\ (users[u].email = identifier \/ users[u].username = identifier)
        /\ users[u].password.pw # password

\* the identifier names a users row whose isActive is false
DeactivatedUser(identifier) ==
    \E u \in DOMAIN users :
        /\ ~users[u].isActive
        /\ (users[u].email = identifier \/ users[u].username = identifier)

\* C1: a login with an identifier that matches no user and a login of an
\* active user with a wrong password are rejected with one and the same
\* outcome: UnauthorizedError "Invalid credentials provided", status 401,
\* nothing else returned
C1_SameRejection ==
    (/\ res.op = "authenticateUser"
     /\ \/ NoSuchUser(res.input.identifier)
        \/ WrongPassword(res.input.identifier, res.input.password))
    => /\ ~res.ok
       /\ res.error = UnauthorizedError("Invalid credentials provided")
       /\ res.status = UNAUTHORIZED
       /\ res.message = "Invalid credentials provided"
       /\ res.accessToken = NoToken /\ res.refreshToken = NoToken
       /\ res.user = Null

\* C1 witness: a login of an active user with a wrong password was rejected
\* after the password was verified
C1_Witness ==
    /\ res.op = "authenticateUser"
    /\ res.dbOk
    /\ WrongPassword(res.input.identifier, res.input.password)
    /\ res.verifyCalled
    /\ ~res.ok

\* C2 (as claimed): a login for a deactivated account fails with
\* UnauthorizedError "Your account is deactivated" and never calls password
\* verification (the identifier query itself succeeding)
C2_DeactivatedMessage ==
    (/\ res.op = "authenticateUser"
     /\ res.dbOk
     /\ DeactivatedUser(res.input.identifier))
    => /\ res.error = UnauthorizedError("Your account is deactivated")
       /\ ~res.verifyCalled

\* a refreshTokens call has just returned; its token was handed to a user, is
\* correctly signed and unexpired, and that user is deactivated or removed
RefreshOfLostUser ==
    /\ res.op = "refreshTokens"
    /\ res.input \in Handed
    /\ res.input.typ = "refresh"
    /\ res.input.sig = env.JWT_REFRESH_SECRET
    /\ res.input.exp > now
    /\ \/ res.input.userId \notin DOMAIN users
       \/ ~users[res.input.userId].isActive

\* C3: a refreshTokens call with a correctly signed, unexpired refresh token
\* of a user who has been deactivated or removed fails with UnauthorizedError
\* and issues no access or refresh token
C3_LostUserCannotRefresh ==
    [][RefreshOfLostUser'
        => /\ ~res'.ok
           /\ res'.error.name = "UnauthorizedError"
           /\ res'.status = UNAUTHORIZED
           /\ res'.accessToken = NoToken /\ res'.refreshToken = NoToken
           /\ issued' = issued]_vars

\* C3 witness: that call happened, with the persistence layer answering
C3_Witness == RefreshOfLostUser /\ res.dbOk

\* the header carries an access token this server handed out, unexpired, whose
\* subject is an active user
ValidBearer(authHeader) ==
    /\ authHeader # Undefined
    /\ authHeader.prefix = "Bearer "
    /\ authHeader.rest \in Handed
    /\ authHeader.rest.typ = "access"
    /\ authHeader.rest.exp > now
    /\ authHeader.rest.userId \in DOMAIN users
    /\ users[authHeader.rest.userId].isActive

\* C4 (as claimed): requireAuth answers every request whose bearer token is
\* missing, invalid or expired, or whose subject is not an active user, with
\* 401 and does not call next (the user query itself succeeding)
C4_Always401 ==
    (res.op = "requireAuth" /\ res.dbOk /\ ~ValidBearer(res.input))
    => (res.status = UNAUTHORIZED /\ ~res.next)

\* the cookie is a refresh token this server handed out, unexpired, of an
\* active user
ValidRefreshCookie(cookie) ==
    /\ cookie \in Handed
    /\ cookie.typ = "refresh"
    /\ cookie.exp > now
    /\ cookie.userId \in DOMAIN users
    /\ users[cookie.userId].isActive

\* C5 (as claimed): POST /auth/refresh with a valid, unexpired refresh-token
\* cookie of an active user answers 200 with a new access token and a rotated
\* cookie, whatever the Authorization header (the persistence layer answering)
C5_CookieAlone ==
    (/\ res.op = "POST /auth/refresh"
     /\ res.dbOk
     /\ ValidRefreshCookie(res.input.cookie))
    => /\ res.status = OK
       /\ res.accessToken # NoToken
       /\ res.cookie # NoToken

\* no token was handed out twice
NoDuplicates ==
    \A i, j \in 1..Len(issued) : i # j => issued[i] # issued[j]

\* C6: every successful refreshTokens call returns an access token and a
\* refresh token that are the two newest handed out, and no two tokens ever
\* handed out (by logins and refreshes, also within one second and for one
\* user) are equal: the pair differs from every token held before
C6_FreshTokens ==
    /\ NoDuplicates
    /\ (res.op = "refreshTokens" /\ res.ok)
        => /\ res.accessToken # NoToken /\ res.refreshToken # NoToken
           /\ Len(issued) >= 2
           /\ issued[Len(issued) - 1] = res.accessToken
           /\ issued[Len(issued)] = res.refreshToken
           /\ res.refreshToken # res.input

\* C6 witness: a refresh succeeded in the very second its token was issued
C6_Witness ==
    /\ res.op = "refreshTokens"
    /\ res.ok
    /\ res.input.iat = now
    /\ res.refreshToken.userId = res.input.userId
    /\ res.refreshToken.iat = res.input.iat

\* C9: requirePermission(tag) calls next exactly when the request has a user
\* whose role holds a role_permissions row with that very tag; without a user
\* it answers 401, with a user lacking the tag 403, neither calling next
C9_PermissionGate ==
    res.op = "requirePermission"
    => LET has == /\ res.reqUser # Undefined
                  /\ [permission |-> res.input]
                        \in roles[res.reqUser.roleId].permissions
       IN  /\ res.next <=> has
           /\ res.reqUser = Undefined => (res.status = UNAUTHORIZED /\ ~res.next)
           /\ (res.reqUser # Undefined /\ ~has)
                => (res.status = FORBIDDEN /\ ~res.next)

\* C9 witness: a user whose role holds other permissions, but not the required
\* one, was answered 403
C9_Witness ==
    /\ res.op = "requirePermission"
    /\ res.reqUser # Undefined
    /\ res.reqUser.role.permissions # {}
    /\ res.status = FORBIDDEN

\* C10 (as claimed): requirePermission never calls next for a user whose role
\* has isActive = false
C10_InactiveRoleDenied ==
    (/\ res.op = "requirePermission"
     /\ res.reqUser # Undefined
     /\ ~roles[res.reqUser.roleId].isActive)
    => ~res.next

\* C11: optionalAuth sends no response and calls next exactly once for every
\* request (no header, another scheme, a token that is malformed, forged,
\* expired, or of a removed or deactivated user); the request carries a user
\* exactly when the token verifies, its subject is an active user and the
\* user query succeeds
C11_OptionalNeverRejects ==
    res.op = "optionalAuth"
    => /\ res.status = 0
       /\ res.next
       /\ res.reqUser # Undefined <=> (ValidBearer(res.input) /\ res.dbOk)
       /\ res.reqUser # Undefined => res.reqUser.id = res.input.rest.userId

\* C11 witness: an expired access token of an active user went through
\* optionalAuth and the request proceeded without a user
C11_Witness ==
    /\ res.op = "optionalAuth"
    /\ res.input # Undefined
    /\ res.input.prefix = "Bearer "
    /\ res.input.rest \in Handed
    /\ res.input.rest.typ = "access"
    /\ res.input.rest.exp <= now
    /\ res.input.rest.userId \in DOMAIN users
    /\ users[res.input.rest.userId].isActive
    /\ res.next
    /\ res.reqUser = Undefined

\* the identifier names an active user whose stored hash is of that password
RightPassword(identifier, password) ==
    \E u \in DOMAIN users :
        /\ users[u].isActive
        /\ (users[u].email = identifier \/ users[u].username = identifier)
        /\ users[u].password.pw = password

\* C12 (as claimed, for a login whose rehash did not fail and whose audit
\* write did not fail): a login whose lookup, active check and password
\* verification pass and whose tokens are generated returns the tokens and the
\* user, whether or not the lastLoginAt update succeeds
C12_BestEffortWrites ==
    (/\ res.op = "authenticateUser"
     /\ res.dbOk
     /\ res.rehash # "failed"
     /\ res.audit # "failed"
     /\ RightPassword(res.input.identifier, res.input.password)
     /\ parseExpiry(env.ACCESS_TOKEN_EXPIRY).ok
     /\ parseExpiry(env.REFRESH_TOKEN_EXPIRY).ok)
    => /\ res.ok
       /\ res.error = NoError
       /\ res.accessToken # NoToken /\ res.refreshToken # NoToken
       /\ res.user # Null

\* C13: when the password verified and the rehash of the stored hash failed,
\* the stored hash is the one that was there (old parameters, same password),
\* the caller sees no error of the rehash, and the login succeeds with tokens
\* whenever its remaining steps do
C13_RehashFailureHarmless ==
    (res.op = "authenticateUser" /\ res.rehash = "failed")
    => /\ \E u \in DOMAIN users :
            /\ (users[u].email = res.input.identifier
                    \/ users[u].username = res.input.identifier)
            /\ needsRehash(users[u].password)
            /\ verifyPassword(res.input.password, users[u].password)
       /\ res.error # PlainError("Failed to hash password")
       /\ res.update = "ok"
            => /\ res.ok /\ res.error = NoError /\ res.status = OK
               /\ res.accessToken # NoToken /\ res.refreshToken # NoToken
               /\ res.user # Null

\* C13 witness: a login succeeded with tokens although its rehash failed
C13_Witness ==
    /\ res.op = "authenticateUser"
    /\ res.rehash = "failed"
    /\ res.ok
    /\ res.accessToken # NoToken

\* String.prototype.replaceAll with a string pattern of one character
RECURSIVE replaceAll(_, _, _)
replaceAll(s, pat, by) ==
    IF Len(s) = 0 THEN ""
    ELSE (IF SubSeq(s, 1, 1) = pat THEN by ELSE SubSeq(s, 1, 1))
            \o replaceAll(SubSeq(s, 2, Len(s)), pat, by)

\* C19 (as claimed): the message of a 403 of requirePermission(tag) is
\* "You don't have permission to " followed by the tag in lower case with
\* every underscore turned into a space
C19_EverySeparatorReplaced ==
    (res.op = "requirePermission" /\ res.status = FORBIDDEN)
    => res.message = "You don't have permission to "
                        \o replaceAll(toLowerCase(res.input), "_", " ")

\* C20: every refresh token handed out that has not expired and whose user is
\* active is accepted by refreshTokens, however many refreshes (also of that
\* very token) have succeeded since it was issued
C20_NoRevokedState ==
    \A i \in 1..Len(issued) :
        (/\ issued[i].typ = "refresh"
         /\ issued[i].exp > now
         /\ issued[i].userId \in DOMAIN users
         /\ users[issued[i].userId].isActive)
        => refreshTokens(issued[i], TRUE).ok

\* C20 witness: a refresh has just succeeded and rotated the token, and the
\* token it was called with is unexpired and its user active
C20_Witness ==
    /\ res.op = "refreshTokens"
    /\ res.ok
    /\ \E i \in 1..Len(issued) : issued[i] = res.input
    /\ res.refreshToken # res.input
    /\ res.input.exp > now
    /\ users[res.input.userId].isActive

\* the header carries an access token this server handed out and that has not
\* expired (verifyAccessToken accepts it)
VerifiableBearer(authHeader) ==
    /\ authHeader # Undefined
    /\ authHeader.prefix = "Bearer "
    /\ authHeader.rest \in Handed
    /\ authHeader.rest.typ = "access"
    /\ authHeader.rest.exp > now

\* C22 (as claimed): when the identifier query of a login fails, or the user
\* query of requireAuth for a token that verified fails, the caller is
\* answered 500 and not 401
C22_FaultsAnswer500 ==
    /\ (res.op = "authenticateUser" /\ ~res.dbOk)
        => (res.status = INTERNAL_SERVER_ERROR
            /\ res.error.name # "UnauthorizedError")
    /\ (res.op = "requireAuth" /\ ~res.dbOk /\ VerifiableBearer(res.input))
        => res.status = INTERNAL_SERVER_ERROR

\* C28 (as claimed): the access tokens handed to one user, by logins and by
\* refreshes, all carry the same role claim, the name of the user's role
C28_SameRoleClaim ==
    \A i \in 1..Len(issued) :
        (issued[i].typ = "access" /\ issued[i].userId \in DOMAIN users)
        => issued[i].role = roles[users[issued[i].userId].roleId].name

(* Properties of the gated routes (SpecG) *)

\* C21: every POST /auth/logout (no header, another scheme, a forged,
\* malformed or expired token, a token of a removed or deactivated user, a
\* valid token; the first call or a repeated one) answers 200 and clears the
\* refreshToken cookie; one LOGOUT row for the caller is appended to the audit
\* log exactly when the token is valid, its subject an active user, the user
\* query succeeds and the audit write succeeds; a failed audit write leaves
\* the log as it was and the answer 200
C21_LogoutAlwaysSucceeds ==
    [][res'.op = "POST /auth/logout"
        => /\ res'.status = OK
           /\ res'.cookie = Cleared
           /\ res'.audit # "none" <=> (ValidBearer(res'.input) /\ res'.dbOk)
           /\ auditLog' =
                IF ValidBearer(res'.input) /\ res'.dbOk /\ res'.audit # "failed"
                THEN Append(auditLog, [action |-> "LOGOUT",
                                       entityId |-> res'.input.rest.userId,
                                       userId |-> res'.input.rest.userId])
                ELSE auditLog]_vars

\* C21 witness: a logout of an authenticated caller whose audit write failed
\* was answered 200 with the cookie cleared
C21_Witness ==
    /\ res.op = "POST /auth/logout"
    /\ ValidBearer(res.input)
    /\ res.audit = "failed"
    /\ res.status = OK
    /\ res.cookie = Cleared

\* C29: a request to GET /users with an access token that verifies is decided
\* on the users, roles and role_permissions rows as they are when the request
\* arrives: 401 without reaching the permission check when the token's user
\* has been removed or deactivated, 403 when the user's present role does not
\* hold USERS_VIEW, 200 otherwise (the user query succeeding)
C29_DecidedOnCurrentState ==
    (res.op = "GET /users" /\ res.dbOk /\ VerifiableBearer(res.input))
    => LET uid == res.input.rest.userId
           active == uid \in DOMAIN users /\ users[uid].isActive
           has == /\ active
                  /\ [permission |-> "USERS_VIEW"]
                        \in roles[users[uid].roleId].permissions
       IN  /\ ~active => (res.status = UNAUTHORIZED /\ res.reqUser = Undefined)
           /\ (active /\ ~has) => (res.status = FORBIDDEN /\ ~res.next)
           /\ has => (res.status = OK /\ res.next)

\* C29 witness: a request with an unexpired access token, whose token was made
\* when every role held USERS_VIEW, was answered 403
C29_Witness ==
    /\ res.op = "GET /users"
    /\ VerifiableBearer(res.input)
    /\ res.input.rest.userId \in DOMAIN users
    /\ users[res.input.rest.userId].roleId = SeedUsers[res.input.rest.userId].roleId
    /\ res.status = FORBIDDEN

-----------------------------------------------------------------------------
(* Properties of concurrent logins (SpecL) *)

\* the place of a step in the login state machine; the lastLoginAt update and
\* the audit write share the last place
Rank(step) ==
    CASE step = "lookup" -> 1 [] step = "activeCheck" -> 2 [] step = "verify" -> 3
      [] step = "rehash" -> 4 [] step = "token" -> 5 [] OTHER -> 6

Rejected(k) == k.pc = "done" /\ k.error.name = "UnauthorizedError"

\* C23: within one login call the lookup comes before the active check, the
\* active check before the password verification, the verification before any
\* rehash, token issuance, lastLoginAt update or audit write; the password is
\* verified only against the hash of the row the call's own lookup fetched for
\* its identifier; a rejected login has issued no token, started no update and
\* no audit write, and while every login so far is rejected or not yet
\* verified the database and the issued tokens are untouched.
C23_StepsInOrder ==
    /\ \A c \in CallIds :
        LET k == calls[c]
        IN  /\ \A i, j \in 1..Len(k.trace) :
                    i < j => /\ Rank(k.trace[i]) <= Rank(k.trace[j])
                             /\ k.trace[i] # k.trace[j]
                             /\ Rank(k.trace[i]) = Rank(k.trace[j])
                                    => Rank(k.trace[i]) = 6
            /\ k.trace # <<>> => k.trace[1] = "lookup"
            /\ k.verifiedAgainst # Null
                => /\ k.user # Null
                   /\ k.verifiedAgainst = k.user.password
                   /\ k.identifier \in {k.user.email, k.user.username}
            /\ Rejected(k)
                => /\ k.at = NoToken /\ k.rt = NoToken
                   /\ k.rehash = "none" /\ k.update = "none" /\ k.audit = "none"
                   /\ \A i \in 1..Len(k.trace) : Rank(k.trace[i]) <= 3
    /\ (\A c \in CallIds : Rejected(calls[c]) \/ calls[c].pc \in {"idle", "fetched"})
        => (issued = <<>> /\ auditLog = <<>> /\ users = SeedUsers /\ jtiCount = 0)

\* a login rejected at the password verification beside one that succeeded
C23_Witness ==
    \E c, d \in CallIds :
        /\ Rejected(calls[c])
        /\ calls[c].trace = <<"lookup", "activeCheck", "verify">>
        /\ calls[d].pc = "done" /\ calls[d].ok
        /\ calls[d].rehash = "ok"
        /\ Len(calls[d].trace) = 7

\* C24 (as claimed): a login call that has completed, with a result or with an
\* error, has no final action still pending
C24_AllSettledBeforeCompletion ==
    \A c \in CallIds :
        calls[c].pc = "done" => (calls[c].update # "pending" /\ calls[c].audit # "pending")

\* the LOGIN audit rows of user u
LoginEvents(u) ==
    {i \in 1..Len(auditLog) : auditLog[i].action = "LOGIN" /\ auditLog[i].userId = u}

\* the calls that returned a successful login of user u
SuccessfulLogins(u) ==
    {c \in CallIds : calls[c].pc = "done" /\ calls[c].ok /\ calls[c].user.id = u}

\* C25 (as claimed): every successful login has recorded one login audit event
\* of its own, so a user has at least as many LOGIN rows as successful logins
C25_OneAuditEventPerLogin ==
    \A u \in UserIds : Cardinality(LoginEvents(u)) >= Cardinality(SuccessfulLogins(u))

\* C25 (amended): a successful login has updated the user's lastLoginAt to
\* the time of a login of that user and has attempted exactly one audit
\* write; a user has exactly one LOGIN row per login whose audit write
\* succeeded; the stored hash of every user still verifies the user's
\* password; after a persisted rehash the stored hash needs no rehash.
C25_LoginEffects ==
    /\ \A c \in CallIds :
        LET k == calls[c]
        IN  /\ (k.pc = "done" /\ k.ok)
                => /\ k.update = "ok"
                   /\ k.audit \in {"ok", "failed"}
                   /\ users[k.user.id].lastLoginAt # Null
                   /\ \E d \in CallIds :
                        /\ calls[d].update = "ok"
                        /\ calls[d].user.id = k.user.id
                        /\ users[k.user.id].lastLoginAt = [time |-> calls[d].loginAt]
            /\ k.rehash = "ok" => ~needsRehash(users[k.user.id].password)
    /\ \A u \in UserIds :
        /\ Cardinality(LoginEvents(u))
             = Cardinality({c \in CallIds : calls[c].audit = "ok" /\ calls[c].user.id = u})
        /\ verifyPassword(SeedUsers[u].password.pw, users[u].password)

\* a successful login with a persisted rehash whose audit write failed
C25_Witness ==
    \E c \in CallIds :
        /\ calls[c].pc = "done" /\ calls[c].ok
        /\ calls[c].rehash = "ok"
        /\ calls[c].audit = "failed"
        /\ auditLog = <<>>

\* C30: two logins of one user that run concurrently do not invalidate each
\* other: a login with the right credentials whose lookup and lastLoginAt
\* update succeed completes successfully whatever the other call does, the
\* two token pairs differ, and each returned token is accepted until its own
\* expiry.
C30_IndependentSessions ==
    /\ \A c \in CallIds :
        LET k == calls[c]
        IN  (k.pc = "done" /\ k.lookupOk /\ k.update # "failed"
                /\ RightPassword(k.identifier, k.password)) => k.ok
    /\ \A c, d \in CallIds :
        LET k == calls[c]
            m == calls[d]
        IN  (c # d /\ k.pc = "done" /\ k.ok /\ m.pc = "done" /\ m.ok
                /\ k.user.id = m.user.id)
            => /\ {k.at, k.rt} \cap {m.at, m.rt} = {}
               /\ verifyAccessToken(k.at, env, now).ok <=> now < k.at.exp
               /\ verifyRefreshToken(k.rt, env, now).ok <=> now < k.rt.exp
               /\ refreshTokens(k.rt, TRUE).ok <=> now < k.rt.exp

\* two successful logins of one user issued at the same instant, both pairs
\* still accepted
C30_Witness ==
    \E c, d \in CallIds :
        /\ c # d
        /\ calls[c].pc = "done" /\ calls[c].ok
        /\ calls[d].pc = "done" /\ calls[d].ok
        /\ calls[c].user.id = calls[d].user.id
        /\ calls[c].loginAt = calls[d].loginAt
        /\ verifyAccessToken(calls[c].at, env, now).ok
        /\ verifyAccessToken(calls[d].at, env, now).ok

(* Properties of registration followed by login (SpecR) *)

\* C26 (as claimed): while the account a registration created is active, a
\* login through the endpoint with its username or its email and its
\* password succeeds and authenticates that account
C26_RegisteredUserCanLogin ==
    (/\ res.op = "POST /auth/login"
     /\ NewUserId \in DOMAIN users
     /\ users[NewUserId].isActive
     /\ res.input.identifier \in {users[NewUserId].email, users[NewUserId].username}
     /\ res.input.password = users[NewUserId].password.pw)
    => (res.status = OK /\ res.user # Null /\ res.user.id = NewUserId)

(* Properties of concurrent createUser calls (SpecC) *)

\* C27 (as claimed, for calls whose insert meets no database fault): of two
\* concurrent createUser calls that share an email or a username at most one
\* creates a user, and when one has created its user the other has failed
\* with ConflictError (409)
C27_LoserGetsConflict ==
    \A c, d \in CallIds :
        (/\ c # d
         /\ calls[c].pc = "done" /\ calls[d].pc = "done"
         /\ calls[c].createOk /\ calls[d].createOk
         /\ \/ calls[c].data.email = calls[d].data.email
            \/ calls[c].data.username = calls[d].data.username)
        => /\ ~(calls[c].ok /\ calls[d].ok)
           /\ calls[c].ok => /\ calls[d].error.name = "ConflictError"
                             /\ calls[d].error.statusCode = CONFLICT

(* Properties of login under every TTL configuration (SpecE) *)

\* C17 (as claimed): no login of an active user with the right password,
\* whose database reads and writes all succeed, fails because of the TTL
\* configuration the server started with
C17_NoRequestTimeFailure ==
    (/\ res.op = "authenticateUser"
     /\ res.dbOk
     /\ res.update # "failed"
     /\ RightPassword(res.input.identifier, res.input.password))
    => /\ res.ok
       /\ res.error \notin {PlainError("Failed to generate access token"),
                             PlainError("Failed to generate refresh token")}

(* Properties of user management (SpecU) *)

\* some users row, active or not, has that email
EmailTaken(email) == \E u \in DOMAIN users : users[u].email = email

\* some users row, active or not, has that username
UsernameTaken(username) == \E u \in DOMAIN users : users[u].username = username

\* C14: createUser with an email some row already has throws ConflictError
\* "Email address is already registered" before hashPassword is called; with
\* a new email and a username some row already has it throws ConflictError
\* "Username is already taken"; either way the users table is left as it was
\* (the two findUnique queries succeeding)
C14_DistinctConflicts ==
    [][(res'.op = "createUser" /\ res'.dbOk)
        => /\ EmailTaken(res'.input.email)
                => /\ res'.error = ConflictError("Email address is already registered")
                   /\ res'.status = CONFLICT
                   /\ ~res'.hashCalled
                   /\ users' = users
           /\ (~EmailTaken(res'.input.email) /\ UsernameTaken(res'.input.username))
                => /\ res'.error = ConflictError("Username is already taken")
                   /\ res'.status = CONFLICT
                   /\ ~res'.hashCalled
                   /\ users' = users]_vars

\* C14 witness: a registration with a new email and a taken username was
\* refused
C14_Witness ==
    /\ res.op = "createUser"
    /\ res.dbOk
    /\ ~EmailTaken(res.input.email)
    /\ UsernameTaken(res.input.username)
    /\ ~res.ok

\* C15 (as claimed): an authenticated request to POST /users/register reaches
\* the controller exactly when the caller's role holds USERS_CREATE, and is
\* answered 403 otherwise
C15_GatedOnUsersCreate ==
    (/\ res.op = "POST /users/register"
     /\ res.reqUser # Undefined)
    => LET has == [permission |-> "USERS_CREATE"] \in res.reqUser.role.permissions
       IN  /\ res.next <=> has
           /\ ~has => res.status = FORBIDDEN

\* C16: every successful result of authenticateUser, refreshTokens,
\* createUser, getCurrentUser (and of the registration route) carries a user
\* without a password field, and so does every element of a getAllUsers result
C16_NoPasswordLeaves ==
    /\ (res.op \in {"authenticateUser", "refreshTokens", "createUser",
                     "getCurrentUser", "POST /users/register"} /\ res.ok)
        => (res.user # Null /\ "password" \notin DOMAIN res.user)
    /\ (res.op = "getAllUsers" /\ res.ok)
        => \A u \in res.list : "password" \notin DOMAIN u

\* C16 witness: getAllUsers returned the seeded users and a registered one
C16_Witness ==
    /\ res.op = "getAllUsers"
    /\ res.ok
    /\ Cardinality(res.list) = Cardinality(UserIds) + 1

(* Properties of the token service on its own (SpecT) *)

\* C7: no token made by generateAccessToken is accepted by verifyRefreshToken
\* and none made by generateRefreshToken by verifyAccessToken, whatever the
\* two secrets are (equal ones included)
C7_NoCrossAcceptance ==
    /\ (res.op = "verifyRefreshToken" /\ res.input \in Handed
            /\ res.input.typ = "access") => ~res.ok
    /\ (res.op = "verifyAccessToken" /\ res.input \in Handed
            /\ res.input.typ = "refresh") => ~res.ok

\* C7 witness: an unexpired access token was given to verifyRefreshToken while
\* both secrets are the same
C7_Witness ==
    /\ res.op = "verifyRefreshToken"
    /\ res.input \in Handed
    /\ res.input.typ = "access"
    /\ res.input.exp > now
    /\ env.JWT_ACCESS_SECRET = env.JWT_REFRESH_SECRET

\* C18: the token generateAccessToken(u, e, r) returns is accepted by
\* verifyAccessToken at the time of issue, with userId = u, email = e,
\* role = r, iat = the time of issue and exp = iat + the access TTL, which is
\* later than the time of issue; and verifyAccessToken of any such token
\* before its expiry returns the claims it was made with
C18_RoundTrip ==
    /\ (res.op = "generateAccessToken" /\ res.ok)
        => LET v == verifyAccessToken(res.accessToken, env, now)
           IN  /\ v.ok
               /\ v.payload.userId = res.input.userId
               /\ v.payload.email = res.input.email
               /\ v.payload.role = res.input.role
               /\ v.payload.iat = now
               /\ v.payload.exp = now + parseExpiry(env.ACCESS_TOKEN_EXPIRY).seconds
               /\ v.payload.exp > now
    /\ (res.op = "verifyAccessToken" /\ res.input \in Handed
            /\ res.input.typ = "access" /\ res.input.exp > now)
        => /\ res.ok
           /\ res.payload = [userId |-> res.input.userId, email |-> res.input.email,
                              role |-> res.input.role, iat |-> res.input.iat,
                              exp |-> res.input.exp]

\* C18 witness: verifyAccessToken returned the claims of a token
\* generateAccessToken made
C18_Witness ==
    /\ res.op = "verifyAccessToken"
    /\ res.ok
    /\ res.input \in Handed
    /\ res.payload.role = "Viewer"
    /\ res.payload.exp > now

\* C8 (as claimed): verifyAccessToken of a correctly signed access token whose
\* expiry has passed fails with "Access token has expired"
C8_ExpiredMessage ==
    (/\ res.op = "verifyAccessToken"
     /\ res.input \in Handed
     /\ res.input.typ = "access"
     /\ res.input.exp <= now)
    => (~res.ok /\ res.error = UnauthorizedError("Access token has expired"))

====
